---------------------------- MODULE Spec2Model ----------------------------
(***************************************************************************)
(* A model of the video-to-slides pipeline:                                *)
(*   - src/extractor.py: VideoKeyframeExtractor (adaptive threshold and    *)
(*     keyframe scan),                                                     *)
(*   - src/asr_processor.py: ASRProcessor.merge_segments and               *)
(*     process_transcription,                                              *)
(*   - src/generate_structured_json.py: extract_keyframe_info,             *)
(*     load_asr_data, match_keyframes_with_asr, generate_structured_json,  *)
(*   - src/mineru_keyframe_processor.py: process_all_videos,               *)
(*   - src/server.py: the module-level extractor and its callers.          *)
(*                                                                         *)
(* Units.  A frame is its grayscale raster reduced to one pixel, a gray    *)
(* level 0..255; a frame difference is kept as the integer |g1 - g2|, in   *)
(* units of 1/255.  Times of the transcript and of the aligner are         *)
(* integers in milliseconds.  A keyframe timestamp frame_position / fps    *)
(* is kept as the exact fraction <<frame_position, fps>>.                  *)
(***************************************************************************)
EXTENDS Integers, Sequences, FiniteSets, TLC

VARIABLES
    pc,                \* position of the running call
    \* ---- extractor.py
    video,             \* the decoder's view of the file (input)
    sample_count,      \* calculate_adaptive_threshold's parameter (input)
    capture_interval,  \* extract_keyframes' parameter, in half seconds (input)
    max_screenshots,   \* extract_keyframes' parameter (input)
    fps, frame_count, threshold, frame_interval,
    prev_frame,        \* <<>> for None, <<frame>> for a frame
    frame_position, screenshot_count, keyframes_info,
    returned,          \* the value the call returned
    progress_callback, \* extract_keyframes' parameter: TRUE when one is supplied (input)
    total_frames_to_process,
    now,               \* the last reading of time.time(), in milliseconds
    last_progress_update,   \* the extractor object's field, in milliseconds
    calls,             \* the invocations of progress_callback, in order
    written,           \* the image files written by cv2.imwrite, in order
    \* ---- asr_processor.py
    segments,          \* result["segments"], the engine's raw segments (input)
    merged, current, merge_i,          \* merge_segments
    split_m,           \* index of the merged segment process_transcription is at
    sentences, current_pos, sent_k,    \* the apportioning loop
    all_sentences,
    \* ---- generate_structured_json.py
    keyframes,         \* the keyframe records read back from the directory (input)
    asr_segments,      \* the transcript segments load_asr_data returned (input)
    slides, match_i,   \* match_keyframes_with_asr
    file_name,         \* the characters of a keyframe file's name
    decoded,           \* what extract_keyframe_info made of that file
    asr_file,          \* the content of the transcript file (input)
    output_writable,   \* whether the structured JSON file can be written (input)
    document,          \* <<>> for None, <<d>> for the document d
    \* ---- mineru_keyframe_processor.py
    video_folders,     \* what get_video_folders returned, with each folder's fate (input)
    summary_writable,  \* whether processing_summary.json can be written (input)
    batch_i,           \* index of the folder process_all_videos is at
    all_results,
    summary,           \* <<>> until processing_summary.json is written
    \* ---- server.py: the module-level extractor and the threads that call it
    keywords,          \* the keyword arguments of the calls of extract_keyframes (input)
    worker_callback,   \* per worker, whether its call passes a progress_callback (input)
    worker_pc,         \* per worker, where its call of extract_keyframes is
    extractor_video_duration,   \* the shared object's field video_duration, in ms
    observed,          \* per worker, the video_duration it read at lines 228-229
    accesses,          \* the reads and writes of the shared object's fields
    overlapped,        \* the pairs of workers that were inside extract_keyframes together
    \* ---- server.py: the /extract endpoint
    request,           \* what the POST carries and whether the named file exists (input)
    response,          \* the handler's answer
    \* ---- one video's keyframe directory, over several runs
    directory,         \* the keyframe files in the video's output directory
    runs,              \* the number of extraction runs made into it
    \* ---- server.py: the lazily created ASR processor and /process_asr
    asr_processor,     \* the module-level variable: 0 for None, else an instance
    instances,         \* the number of ASRProcessor objects constructed so far
    asr_request,       \* per thread, what its POST is like (input)
    asr_pc,            \* per thread, where its handler is
    asr_made,          \* per thread, the instance it constructed and has not stored yet
    processor          \* per thread, the handler's local variable: 0 while unset

extVars == <<video, sample_count, capture_interval, max_screenshots, fps, frame_count,
             threshold, frame_interval, prev_frame, frame_position,
             screenshot_count, keyframes_info, returned, progress_callback,
             total_frames_to_process, now, last_progress_update, calls, written>>

asrVars == <<segments, merged, current, merge_i, split_m, sentences, current_pos,
             sent_k, all_sentences>>

alignVars == <<keyframes, asr_segments, slides, match_i>>

fileVars == <<file_name, decoded>>

batchVars == <<video_folders, summary_writable, batch_i, all_results, summary>>

genVars == <<asr_file, output_writable, document>>

workerVars == <<keywords, worker_callback, worker_pc, extractor_video_duration,
                observed, accesses, overlapped>>

endpointVars == <<request, response>>

dirVars == <<directory, runs>>

lazyVars == <<asr_processor, instances, asr_request, asr_pc, asr_made, processor>>

serverVars == <<endpointVars, dirVars, lazyVars>>

auxVars == <<fileVars, batchVars, genVars, workerVars, serverVars>>

vars == <<pc, extVars, asrVars, alignVars, auxVars>>

----------------------------------------------------------------------------
(* Bounds of the model.                                                    *)

MaxVideos == 2
MaxFrames == 3
MaxCap == 3
MaxSegments == 3
MaxKeyframes == 3
MaxAsrSegments == 2

(* Gray levels a frame is drawn from: the difference 10 falls below 0.05,  *)
(* 50 and 60 between 0.05 and 0.3, and 90, 140 and 150 above 0.3.          *)
GrayLevels == {0, 10, 60, 150}

NotReturned == "not returned"

----------------------------------------------------------------------------
(* Arithmetic helpers.                                                     *)

Abs(x) == IF x < 0 THEN -x ELSE x
Max(a, b) == IF a > b THEN a ELSE b
Min(a, b) == IF a < b THEN a ELSE b

(* Python's int() of the fraction num/den (den > 0): truncation to zero.   *)
Trunc(num, den) == IF num >= 0 THEN num \div den ELSE -((-num) \div den)

RECURSIVE SumSeq(_)
SumSeq(s) == IF s = <<>> THEN 0 ELSE Head(s) + SumSeq(Tail(s))

(***************************************************************************)
(* A threshold is the real number (a + sqrt(d)/2) / n, in units of 1/255,  *)
(* kept as the record [a, d, n] with n > 0 and d >= 0, so that mean +      *)
(* 0.5 * std of integer differences and the constants 0.05, 0.1, 0.3 are   *)
(* all exact.  Comparisons with a fraction p/q (q > 0) square the root     *)
(* away.                                                                   *)
(***************************************************************************)
Real(a, d, n) == [a |-> a, d |-> d, n |-> n]

RealGt(x, p, q) ==
    LET r == 2 * (p * x.n - q * x.a) IN r < 0 \/ q * q * x.d > r * r

RealLt(x, p, q) ==
    LET r == 2 * (p * x.n - q * x.a) IN r > 0 /\ q * q * x.d < r * r

----------------------------------------------------------------------------
(* extractor.py                                                            *)

(* cap.read() after cap.set(POS_FRAMES, pos): the decodable frames are the *)
(* prefix video.frames; any other position is a failed read.               *)
CanRead(v, pos) == pos >= 0 /\ pos < Len(v.frames)
FrameAt(v, pos) == v.frames[pos + 1]

calculate_frame_difference(frame1, frame2) == Abs(frame1 - frame2)

DefaultThreshold == Real(51, 0, 2)     \* 0.1  = 25.5  / 255
ThresholdFloor == Real(51, 0, 4)       \* 0.05 = 12.75 / 255
ThresholdCeil == Real(153, 0, 2)       \* 0.3  = 76.5  / 255

(* np.mean(differences) + 0.5 * np.std(differences): with n values of sum  *)
(* S and sum of squares Q, mean = S/n and std = sqrt(n*Q - S*S)/n.         *)
MeanPlusHalfStd(differences) ==
    LET n == Len(differences)
        S == SumSeq(differences)
        Q == SumSeq([j \in 1..n |-> differences[j] * differences[j]])
    IN Real(S, n * Q - S * S, n)

ClampNoCeil(t) ==
    IF RealGt(t, ThresholdFloor.a, ThresholdFloor.n) THEN t ELSE ThresholdFloor

(* max(0.05, min(threshold, 0.3)) *)
Clamp(t) ==
    LET lo == IF RealGt(t, ThresholdCeil.a, ThresholdCeil.n) THEN ThresholdCeil ELSE t
    IN IF RealGt(lo, ThresholdFloor.a, ThresholdFloor.n) THEN lo ELSE ThresholdFloor

(* The sampling loop: positions i * interval for i = 0..sample_count, up   *)
(* to the first failed read; one difference per consecutive pair read.     *)
SampleDifferences(v, count) ==
    LET interval == Max(1, v.frame_count \div (count + 1))
        read == {i \in 0..count : \A j \in 0..i : CanRead(v, j * interval)}
        n == Cardinality(read)
    IN [j \in 1..(IF n = 0 THEN 0 ELSE n - 1) |->
            calculate_frame_difference(FrameAt(v, (j - 1) * interval),
                                       FrameAt(v, j * interval))]

calculate_adaptive_threshold_unguarded(v, count) ==
    IF v.frame_count <= 1 THEN DefaultThreshold
    ELSE Clamp(MeanPlusHalfStd(SampleDifferences(v, count)))

(* The value returned for a video that opens. *)
calculate_adaptive_threshold(v, count) ==
    IF v.frame_count <= 1 THEN DefaultThreshold
    ELSE LET differences == SampleDifferences(v, count)
         IN IF differences = <<>> THEN DefaultThreshold
            ELSE Clamp(MeanPlusHalfStd(differences))

(* get CAP_PROP_FPS, with the default of 30 for a non-positive rate *)
EffectiveFps(v) == IF v.fps <= 0 THEN 30 ELSE v.fps

(* int(capture_interval * fps), at least 1; ci is in half seconds *)
FrameInterval(ci, rate) ==
    LET n == Trunc(ci * rate, 2) IN IF n < 1 THEN 1 ELSE n

TimestampFloorDiv(pos, rate) == <<pos \div rate, 1>>

(* timestamp = frame_position / fps, as the fraction <<numerator, denominator>> *)
Timestamp(pos, rate) == <<pos, rate>>

TsLess(t1, t2) == t1[1] * t2[2] < t2[1] * t1[2]

RECURSIVE GCD(_, _)
GCD(a, b) == IF b = 0 THEN a ELSE GCD(b, a % b)

RECURSIVE IsPowerOfTwo(_)
IsPowerOfTwo(n) == n = 1 \/ (n > 1 /\ n % 2 = 0 /\ IsPowerOfTwo(n \div 2))

(***************************************************************************)
(* line 340: int((seconds % 1) * 1000) of the double seconds = pos / fps.  *)
(* The double is exact when the fraction of a second is a multiple of a    *)
(* power of 1/2; otherwise it lies a little to either side of pos / fps.   *)
(* That error cannot carry the product over a whole number of              *)
(* milliseconds, except when pos / fps is itself a whole number k of       *)
(* milliseconds: then the product is k or a little less, and int() gives   *)
(* k or k - 1.  Which of the two is a matter of the IEEE 754 arithmetic:   *)
(* for the positions 0..16 and those of NamedPositions, at the rates of    *)
(* NamedRates, it gives k - 1 for the timestamps of LoweredByDouble and k  *)
(* for the others; for a timestamp outside this range the model allows     *)
(* both.                                                                   *)
(***************************************************************************)
NamedPositions == {0, 1, 29, 59, 60, 3599, 3600, 86399, 359999, 360000, 720000}
NamedRates == {1, 2, 25, 30}

LoweredByDouble == {<<29, 25>>, <<59, 25>>, <<60, 25>>, <<359999, 25>>}

Milliseconds(t) ==
    LET rest == t[1] % t[2]
        k == (rest * 1000) \div t[2]
        whole_ms == (rest * 1000) % t[2] = 0
        exact_double == IsPowerOfTwo(t[2] \div GCD(rest, t[2]))
        computed == t[1] \in (NamedPositions \cup 0..16) /\ t[2] \in NamedRates
    IN IF whole_ms /\ k >= 1 /\ ~exact_double
       THEN IF t \in LoweredByDouble THEN {k - 1}
            ELSE IF computed THEN {k}
            ELSE {k - 1, k}
       ELSE {k}

(* format_timestamp: the HH-MM-SS-mmm fields of a fraction of seconds, the *)
(* milliseconds being ms *)
format_timestamp(t, ms) ==
    LET whole == t[1] \div t[2]
    IN [h |-> (whole \div 60) \div 60, m |-> (whole \div 60) % 60,
        s |-> whole % 60, ms |-> ms]

(* f"keyframe_{timestamp_formatted}_{screenshot_count:04d}.jpg" *)
Filename(stamp, count) == [stamp |-> stamp, seq |-> count]

KeyframeInfo(pos, rate, count, diff, ms) ==
    [path |-> Filename(format_timestamp(Timestamp(pos, rate), ms), count),
     timestamp |-> Timestamp(pos, rate),
     timestamp_formatted |-> format_timestamp(Timestamp(pos, rate), ms),
     frame_number |-> pos,
     difference |-> diff]

IsSceneChangeInverted(diff, t) == RealGt(t, diff, 1)

(* diff > threshold *)
IsSceneChange(diff, t) == RealLt(t, diff, 1)

(* cap.isOpened() *)
IsOpenedAssumed(v) == TRUE

IsOpened(v) == v.opens

(* line 238: min(frame_count, int(frame_count / frame_interval) * frame_interval) *)
TotalFramesToProcess(count, interval) == Min(count, (count \div interval) * interval)

(* line 256: progress in percent, as the fraction <<numerator, denominator>> *)
Progress(pos, total) == IF total > 0 THEN <<pos * 100, total>> ELSE <<0, 1>>

(* progress >= 100 *)
ProgressComplete(p) == p[1] >= 100 * p[2]

(* The clock.  time.time() is read once per iteration of the scan; a call  *)
(* starts at StartTime, long after the epoch, and between two readings     *)
(* either 100 ms or 600 ms go by.  An invocation is logged with the last   *)
(* reading made before it.                                                 *)
StartTime == 1000
Ticks == {100, 600}

(* line 260: the 0.5 s of the throttle, in milliseconds *)
ThrottleMs == 500

(* line 260: the condition under which the scan loop invokes the callback *)
ShouldNotify(cb, current_time, last, p) ==
    cb /\ (current_time - last > ThrottleMs \/ ProgressComplete(p))

ProgressCall(p, t, where) == [value |-> p, time |-> t, at |-> where]

NotifyCompletionThrottled(log, cb, t) ==
    IF cb /\ t - last_progress_update > ThrottleMs
    THEN Append(log, ProgressCall(<<100, 1>>, t, "finish")) ELSE log

(* lines 321-322: the last invocation, with 100 *)
NotifyCompletion(log, cb, t) ==
    IF cb THEN Append(log, ProgressCall(<<100, 1>>, t, "finish")) ELSE log

FrameSeqs == UNION {[1..n -> GrayLevels] : n \in 0..MaxFrames}

(* The counts a container reports for a file with n decodable frames:     *)
(* unknown (0), one short, exact, one over.                               *)
ReportedCounts(n) == {0} \cup {c \in {n - 1, n, n + 1} : c >= 0}

Videos ==
    {[opens |-> FALSE, frames |-> <<>>, frame_count |-> 0, fps |-> 0]}
    \cup {[opens |-> TRUE, frames |-> f, frame_count |-> c, fps |-> r] :
            f \in FrameSeqs, c \in 0..(MaxFrames + 1), r \in {0, 1, 2}}

DefaultSampleCount == 10

NoSegment == [start |-> 0, end |-> 0, text |-> <<>>, words_ref |-> 0]

AsrIdle ==
    /\ segments = <<>> /\ merged = <<>> /\ current = NoSegment /\ merge_i = 0
    /\ split_m = 0 /\ sentences = <<>> /\ current_pos = 0 /\ sent_k = 0
    /\ all_sentences = <<>>

AlignIdle == keyframes = <<>> /\ asr_segments = <<>> /\ slides = <<>> /\ match_i = 0

FileIdle == file_name = <<>> /\ decoded = <<>>

BatchIdle ==
    /\ video_folders = <<>> /\ summary_writable = TRUE /\ batch_i = 0
    /\ all_results = <<>> /\ summary = <<>>

NoFile == [kind |-> "scalar", items |-> <<>>]

GenIdle == asr_file = NoFile /\ output_writable = TRUE /\ document = <<>>

WorkersIdle ==
    /\ keywords = "signature" /\ worker_callback = <<>> /\ worker_pc = <<>>
    /\ extractor_video_duration = 0 /\ observed = <<>>
    /\ accesses = {} /\ overlapped = {}

NoRequest == [has_filename |-> FALSE, exists |-> FALSE]

NoResponse == [status |-> 0, keyframes |-> <<>>]

EndpointIdle == request = NoRequest /\ response = NoResponse

DirectoryIdle == directory = {} /\ runs = 0

LazyIdle ==
    /\ asr_processor = 0 /\ instances = 0 /\ asr_request = <<>> /\ asr_pc = <<>>
    /\ asr_made = <<>> /\ processor = <<>>

ServerIdle == EndpointIdle /\ DirectoryIdle /\ LazyIdle

AuxIdle == FileIdle /\ BatchIdle /\ GenIdle /\ WorkersIdle /\ ServerIdle

ExtractIdle ==
    /\ fps = 0 /\ frame_count = 0 /\ threshold = Real(0, 0, 1) /\ frame_interval = 0
    /\ prev_frame = <<>> /\ frame_position = 0 /\ screenshot_count = 0
    /\ keyframes_info = <<>> /\ returned = NotReturned
    /\ total_frames_to_process = 0 /\ now = StartTime /\ last_progress_update = 0
    /\ calls = <<>> /\ written = <<>>

InitExtract ==
    /\ pc = "extract"
    /\ video \in {v \in Videos : v.frame_count \in ReportedCounts(Len(v.frames))}
    /\ sample_count = DefaultSampleCount
    /\ capture_interval \in {-1, 0, 1, 2}
    /\ max_screenshots \in 0..MaxCap
    /\ progress_callback \in BOOLEAN
    /\ ExtractIdle
    /\ AsrIdle
    /\ AlignIdle
    /\ AuxIdle

AdvanceStalled(pos, interval) == pos

(* line 315: frame_position += frame_interval *)
Advance(pos, interval) == pos + interval

NextPrevFrameOnEmit(prev, frame, emit) == IF emit THEN <<frame>> ELSE prev

(* line 312: prev_frame = frame.copy(), whether or not the frame was saved *)
NextPrevFrame(prev, frame, emit) == <<frame>>

(* cv2.VideoCapture(video_path) is not opened: raise ValueError *)
OpenFail ==
    /\ pc = "extract"
    /\ ~IsOpened(video)
    /\ pc' = "raised"
    /\ UNCHANGED <<extVars, asrVars, alignVars, auxVars>>

(* lines 207-241: stream metadata, threshold, frame interval, loop variables *)
Setup ==
    /\ pc = "extract"
    /\ IsOpened(video)
    /\ fps' = EffectiveFps(video)
    /\ frame_count' = video.frame_count
    /\ threshold' = calculate_adaptive_threshold(video, sample_count)
    /\ frame_interval' = FrameInterval(capture_interval, EffectiveFps(video))
    /\ keyframes_info' = <<>>
    /\ prev_frame' = <<>>
    /\ frame_position' = 0
    /\ screenshot_count' = 0
    /\ total_frames_to_process' =
          TotalFramesToProcess(video.frame_count,
                               FrameInterval(capture_interval, EffectiveFps(video)))
    /\ pc' = "scan"
    /\ UNCHANGED <<video, sample_count, capture_interval, max_screenshots, returned,
                   progress_callback, now, last_progress_update, calls, written,
                   asrVars, alignVars, auxVars>>

LoopConditionNoCap == frame_position < frame_count

(* line 243: the condition of the while loop *)
LoopCondition == frame_position < frame_count /\ screenshot_count < max_screenshots

(* one iteration of the while loop whose read succeeds *)
ScanStep ==
    /\ pc = "scan"
    /\ LoopCondition
    /\ CanRead(video, frame_position)
    /\ LET frame == FrameAt(video, frame_position)
           diff == IF prev_frame = <<>> THEN 0
                   ELSE calculate_frame_difference(prev_frame[1], frame)
           emit == prev_frame = <<>> \/ IsSceneChange(diff, threshold)
       IN /\ \E ms \in Milliseconds(Timestamp(frame_position, fps)) :
                LET info == KeyframeInfo(frame_position, fps, screenshot_count, diff, ms)
                IN /\ keyframes_info' =
                         IF emit THEN Append(keyframes_info, info) ELSE keyframes_info
                   /\ written' = IF emit THEN Append(written, info.path) ELSE written
          /\ screenshot_count' = IF emit THEN screenshot_count + 1 ELSE screenshot_count
          /\ prev_frame' = NextPrevFrame(prev_frame, frame, emit)
    /\ \E tick \in Ticks :
          LET current_time == now + tick
              progress == Progress(frame_position, total_frames_to_process)
              notify == ShouldNotify(progress_callback, current_time,
                                     last_progress_update, progress)
          IN /\ now' = current_time
             /\ calls' = IF notify
                         THEN Append(calls, ProgressCall(progress, current_time, "scan"))
                         ELSE calls
             /\ last_progress_update' = IF notify THEN current_time ELSE last_progress_update
    /\ frame_position' = Advance(frame_position, frame_interval)
    /\ UNCHANGED <<pc, video, sample_count, capture_interval, max_screenshots, fps,
                   frame_count, threshold, frame_interval, returned, progress_callback,
                   total_frames_to_process, asrVars, alignVars, auxVars>>

ReadFailDiscards ==
    /\ pc = "scan"
    /\ LoopCondition
    /\ ~CanRead(video, frame_position)
    /\ keyframes_info' = <<>>
    /\ pc' = "finish"
    /\ UNCHANGED <<video, sample_count, capture_interval, max_screenshots, fps,
                   frame_count, threshold, frame_interval, prev_frame, frame_position,
                   screenshot_count, returned, progress_callback,
                   total_frames_to_process, now, last_progress_update, calls, written,
                   asrVars, alignVars, auxVars>>

(* "if not ret: break" *)
ReadFail ==
    /\ pc = "scan"
    /\ LoopCondition
    /\ ~CanRead(video, frame_position)
    /\ pc' = "finish"
    /\ UNCHANGED <<extVars, asrVars, alignVars, auxVars>>

(* the while condition is false *)
LoopExit ==
    /\ pc = "scan"
    /\ ~LoopCondition
    /\ pc' = "finish"
    /\ UNCHANGED <<extVars, asrVars, alignVars, auxVars>>

(* lines 317-328: release, the last progress update (made before the      *)
(* clock is read again) and return keyframes_info                          *)
Return ==
    /\ pc = "finish"
    /\ calls' = NotifyCompletion(calls, progress_callback, now)
    /\ returned' = keyframes_info
    /\ pc' = "returned"
    /\ UNCHANGED <<video, sample_count, capture_interval, max_screenshots, fps,
                   frame_count, threshold, frame_interval, prev_frame, frame_position,
                   screenshot_count, keyframes_info, progress_callback,
                   total_frames_to_process, now, last_progress_update, written,
                   asrVars, alignVars, auxVars>>

NextExtract == OpenFail \/ Setup \/ ScanStep \/ ReadFail \/ LoopExit \/ Return

SpecExtract == InitExtract /\ [][NextExtract]_vars

(* lines 243-328: the scan loop and what follows it *)
ScanAndReturn == ScanStep \/ ReadFail \/ LoopExit \/ Return

(* The loop is sequential code on one thread: while one of its steps is    *)
(* possible, one is taken.                                                 *)
SpecExtractFair == SpecExtract /\ WF_vars(ScanAndReturn)

----------------------------------------------------------------------------
(* calculate_adaptive_threshold called on its own, for any sample count.   *)

InitThreshold ==
    /\ pc = "threshold"
    /\ video \in Videos
    /\ sample_count \in {1, 2, DefaultSampleCount}
    /\ capture_interval = 0
    /\ max_screenshots = 0
    /\ progress_callback = FALSE
    /\ ExtractIdle
    /\ AsrIdle
    /\ AlignIdle
    /\ AuxIdle

(* line 85: the capture is not opened: raise ValueError *)
ThresholdOpenFail ==
    /\ pc = "threshold"
    /\ ~IsOpened(video)
    /\ pc' = "raised"
    /\ UNCHANGED <<extVars, asrVars, alignVars, auxVars>>

ThresholdReturn ==
    /\ pc = "threshold"
    /\ IsOpened(video)
    /\ threshold' = calculate_adaptive_threshold(video, sample_count)
    /\ pc' = "threshold_returned"
    /\ UNCHANGED <<video, sample_count, capture_interval, max_screenshots, fps,
                   frame_count, frame_interval, prev_frame, frame_position,
                   screenshot_count, keyframes_info, returned, progress_callback,
                   total_frames_to_process, now, last_progress_update, calls, written,
                   asrVars, alignVars, auxVars>>

NextThreshold == ThresholdOpenFail \/ ThresholdReturn

SpecThreshold == InitThreshold /\ [][NextThreshold]_vars

----------------------------------------------------------------------------
(* asr_processor.py                                                        *)
(*                                                                         *)
(* A text is a sequence of characters, each a one-character string; the    *)
(* CJK marks are written by their code points.                             *)

Whitespace == {" "}
TerminalMarks == {".", "!", "?", "U+3002", "U+FF01", "U+FF1F"}
LatinUpperCase == {"A", "B", "C", "D", "E", "F", "G", "H", "I", "J", "K", "L", "M",
                   "N", "O", "P", "Q", "R", "S", "T", "U", "V", "W", "X", "Y", "Z"}

(* The characters of the model for which str.isupper() is true: the Latin  *)
(* capitals and the Cyrillic capital De, U+0414.                           *)
UpperCase == LatinUpperCase \cup {"U+0414"}

RECURSIVE LStrip(_)
LStrip(t) == IF t # <<>> /\ Head(t) \in Whitespace THEN LStrip(Tail(t)) ELSE t

RECURSIVE RStrip(_)
RStrip(t) ==
    IF t # <<>> /\ t[Len(t)] \in Whitespace THEN RStrip(SubSeq(t, 1, Len(t) - 1)) ELSE t

(* str.strip() *)
Strip(t) == RStrip(LStrip(t))

(* str.split(): the maximal runs of non-whitespace characters, in order *)
RECURSIVE Words(_)
Words(t) ==
    LET u == LStrip(t)
        stops == {j \in 1..Len(u) : u[j] \in Whitespace}
        n == IF stops = {} THEN Len(u)
             ELSE (CHOOSE j \in stops : \A x \in stops : j <= x) - 1
    IN IF u = <<>> THEN <<>>
       ELSE <<SubSeq(u, 1, n)>> \o Words(SubSeq(u, n + 1, Len(u)))

RECURSIVE Flatten(_)
Flatten(ss) == IF ss = <<>> THEN <<>> ELSE Head(ss) \o Flatten(Tail(ss))

(* nltk's sent_tokenize on a stripped text: a sentence ends at a '.', '!'  *)
(* or '?' that is followed by whitespace; the pieces carry no surrounding  *)
(* whitespace, and a text without characters has no sentence.              *)
SentenceEnd == {".", "!", "?"}

RECURSIVE sent_tokenize(_)
sent_tokenize(t) ==
    LET breaks == {j \in 1..(Len(t) - 1) :
                       t[j] \in SentenceEnd /\ t[j + 1] \in Whitespace}
        b == CHOOSE j \in breaks : \A x \in breaks : j <= x
    IN IF t = <<>> THEN <<>>
       ELSE IF breaks = {} THEN <<t>>
       ELSE <<SubSeq(t, 1, b)>> \o sent_tokenize(LStrip(SubSeq(t, b + 1, Len(t))))

(***************************************************************************)
(* round(x, 2) of x = num/den milliseconds (num >= 0, den > 0), in         *)
(* milliseconds: the nearest multiple of 10.  Python rounds the double     *)
(* that stands for x; when x is exactly half way between two multiples,    *)
(* the double computed for it lies on either side, so both neighbours are  *)
(* results the arithmetic can produce.                                     *)
(***************************************************************************)
Round2(num, den) ==
    LET q == num \div (10 * den)
        rest == num - 10 * q * den        \* (x - 10q) * den, in [0, 10 * den)
    IN IF rest < 5 * den THEN {10 * q}
       ELSE IF rest > 5 * den THEN {10 * q + 10}
       ELSE {10 * q, 10 * q + 10}

IsBoundaryUpperOnly(current_text, next_text) ==
    next_text # <<>> /\ next_text[1] \in UpperCase

(* line 189: the accumulator ends with a terminal mark, or the next        *)
(* segment starts with an upper-case letter                                *)
IsBoundary(current_text, next_text) ==
    \/ current_text # <<>> /\ current_text[Len(current_text)] \in TerminalMarks
    \/ next_text # <<>> /\ next_text[1] \in UpperCase

(* segment.copy(): a shallow copy, whose "words" is the list object of     *)
(* segments[idx] itself (words_ref; 0 when the segment has no "words")     *)
Copy(seg, idx) ==
    [start |-> seg.start, end |-> seg.end, text |-> seg.text,
     words_ref |-> IF seg.has_words THEN idx ELSE 0]

MergeIntoNoEnd(cur, nxt) ==
    [cur EXCEPT !.text = cur.text \o <<" ">> \o Strip(nxt.text)]

MergeIntoNoSpace(cur, nxt) ==
    [cur EXCEPT !.text = cur.text \o Strip(nxt.text), !.end = nxt.end]

(* lines 195-196: text and end of the accumulator after a merge *)
MergeInto(cur, nxt) ==
    [cur EXCEPT !.text = cur.text \o <<" ">> \o Strip(nxt.text), !.end = nxt.end]

(* line 197-198: current["words"].extend(next_segment["words"]) acts on    *)
(* the list the accumulator shares with the raw segment it was copied from *)
ExtendWords(segs, cur, idx) ==
    IF cur.words_ref # 0 /\ segs[idx].has_words
    THEN [segs EXCEPT ![cur.words_ref].words = @ \o segs[idx].words]
    ELSE segs

Sentence(text, start, end) == [text |-> text, start |-> start, end |-> end]

TextHello == <<"H", "e", "l", "l", "o", ".">>
TextWorld == <<"w", "o", "r", "l", "d">>
TextHelloWorld == TextHello \o <<" ">> \o TextWorld

(* Texts of the raw segments. *)
TextPool ==
    { <<"H", "e", "l", "l", "o", ".">>,
      <<"w", "o", "r", "l", "d">>,
      <<" ", "a", " ", "b">>,
      <<"Y", "e", "s", ".", " ", "Y", "e", "s", ".", " ", "Y", "e", "s", ".">>,
      <<"o", "k", ".", " ", "s", "o">>,
      <<"U+0414", "a">>,
      <<>> }

(* Timing of the j-th raw segment: whole seconds back to back, or a short  *)
(* span on a millisecond grid.                                             *)
SegmentSpan(shape, j) ==
    IF shape = "whole" THEN <<(j - 1) * 1000, j * 1000>>
    ELSE <<(j - 1) * 1000 + 3, (j - 1) * 1000 + 21>>

(* the word list of each text of the pool *)
PoolWords == [t \in TextPool |-> Words(t)]

RawSegment(shape, j, text, has_words) ==
    [start |-> SegmentSpan(shape, j)[1], end |-> SegmentSpan(shape, j)[2],
     text |-> text, has_words |-> has_words,
     words |-> IF has_words THEN PoolWords[text] ELSE <<>>]

(* The transcript of n raw segments with the given timing, texts and word  *)
(* lists.                                                                  *)
Transcript(n, shape, texts, hw) ==
    [j \in 1..n |-> RawSegment(shape, j, texts[j], hw[j])]

InitASR ==
    /\ pc = "process_transcription"
    /\ \E n \in 0..MaxSegments, shape \in {"whole", "short"} :
          \E texts \in [1..n -> TextPool], hw \in [1..n -> BOOLEAN] :
              segments = Transcript(n, shape, texts, hw)
    /\ merged = <<>> /\ current = NoSegment /\ merge_i = 0
    /\ split_m = 0 /\ sentences = <<>> /\ current_pos = 0 /\ sent_k = 0
    /\ all_sentences = <<>>
    /\ video = [opens |-> FALSE, frames |-> <<>>, frame_count |-> 0, fps |-> 0]
    /\ sample_count = DefaultSampleCount
    /\ capture_interval = 0 /\ max_screenshots = 0
    /\ progress_callback = FALSE
    /\ ExtractIdle
    /\ AlignIdle
    /\ AuxIdle

(* line 116: no segments, the result is returned with no sentence *)
ReturnNoSegments ==
    /\ pc = "process_transcription"
    /\ segments = <<>>
    /\ pc' = "transcribed"
    /\ UNCHANGED <<extVars, asrVars, alignVars, auxVars>>

(* line 120 and lines 176-180: merge_segments is entered *)
MergeBegin ==
    /\ pc = "process_transcription"
    /\ segments # <<>>
    /\ merged' = <<>>
    /\ current' = Copy(segments[1], 1)
    /\ merge_i' = 2
    /\ pc' = "merge"
    /\ UNCHANGED <<extVars, alignVars, segments, split_m, sentences, current_pos, sent_k,
                   all_sentences, auxVars>>

(* one iteration of merge_segments' loop *)
MergeStep ==
    /\ pc = "merge"
    /\ merge_i <= Len(segments)
    /\ LET next_segment == segments[merge_i]
           current_text == Strip(current.text)
           next_text == Strip(next_segment.text)
       IN IF IsBoundary(current_text, next_text)
          THEN /\ merged' = Append(merged, current)
               /\ current' = Copy(next_segment, merge_i)
               /\ segments' = segments
          ELSE /\ merged' = merged
               /\ current' = MergeInto(current, next_segment)
               /\ segments' = ExtendWords(segments, current, merge_i)
    /\ merge_i' = merge_i + 1
    /\ UNCHANGED <<pc, extVars, alignVars, split_m, sentences, current_pos, sent_k, all_sentences, auxVars>>

(* lines 200-203 and 123: the last accumulator is appended, merge_segments *)
(* returns and the loop over the merged segments starts                    *)
MergeReturn ==
    /\ pc = "merge"
    /\ merge_i > Len(segments)
    /\ merged' = Append(merged, current)
    /\ split_m' = 1
    /\ all_sentences' = <<>>
    /\ pc' = "split"
    /\ UNCHANGED <<extVars, alignVars, segments, current, merge_i, sentences, current_pos, sent_k, auxVars>>

(* lines 134-139: the merged segment is one sentence, which takes its span *)
SplitSingle ==
    /\ pc = "split"
    /\ split_m <= Len(merged)
    /\ LET segment == merged[split_m]
           found == sent_tokenize(Strip(segment.text))
       IN /\ Len(found) = 1
          /\ sentences' = found
          /\ all_sentences' =
                Append(all_sentences, Sentence(found[1], segment.start, segment.end))
    /\ split_m' = split_m + 1
    /\ UNCHANGED <<pc, extVars, alignVars, segments, merged, current, merge_i, current_pos, sent_k, auxVars>>

(* lines 140-143: any other number of sentences, the apportioning starts *)
SplitMany ==
    /\ pc = "split"
    /\ split_m <= Len(merged)
    /\ LET found == sent_tokenize(Strip(merged[split_m].text))
       IN /\ Len(found) # 1
          /\ sentences' = found
    /\ current_pos' = 0
    /\ sent_k' = 1
    /\ pc' = "apportion"
    /\ UNCHANGED <<extVars, alignVars, segments, merged, current, merge_i, split_m, all_sentences, auxVars>>

TotalChars(ss) == SumSeq([j \in 1..Len(ss) |-> Len(ss[j])])

(* lines 145-159: one sentence gets its share of the span *)
ApportionStep ==
    /\ pc = "apportion"
    /\ sent_k <= Len(sentences)
    /\ LET start == merged[split_m].start
           end == merged[split_m].end
           total_chars == TotalChars(sentences)
           sentence_len == Len(sentences[sent_k])
           \* sentence_start and sentence_end, times total_chars
           start_num == start * total_chars + (end - start) * current_pos
           end_num == start_num + (end - start) * sentence_len
       IN \E s \in Round2(start_num, total_chars), e \in Round2(end_num, total_chars) :
              all_sentences' = Append(all_sentences, Sentence(sentences[sent_k], s, e))
    /\ current_pos' = current_pos + Len(sentences[sent_k])
    /\ sent_k' = sent_k + 1
    /\ UNCHANGED <<pc, extVars, alignVars, segments, merged, current, merge_i, split_m, sentences, auxVars>>

(* the loop over the sentences is over, on to the next merged segment *)
ApportionEnd ==
    /\ pc = "apportion"
    /\ sent_k > Len(sentences)
    /\ split_m' = split_m + 1
    /\ pc' = "split"
    /\ UNCHANGED <<extVars, alignVars, segments, merged, current, merge_i, sentences, current_pos,
                   sent_k, all_sentences, auxVars>>

(* lines 161-164: every merged segment is done *)
ReturnTranscript ==
    /\ pc = "split"
    /\ split_m > Len(merged)
    /\ pc' = "transcribed"
    /\ UNCHANGED <<extVars, asrVars, alignVars, auxVars>>

NextASR ==
    \/ ReturnNoSegments \/ MergeBegin \/ MergeStep \/ MergeReturn
    \/ SplitSingle \/ SplitMany \/ ApportionStep \/ ApportionEnd \/ ReturnTranscript

SpecASR == InitASR /\ [][NextASR]_vars

----------------------------------------------------------------------------
(* generate_structured_json.py                                             *)

(* lines 43-54: the record extract_keyframe_info builds from a file name   *)
(* that matches the pattern; timestamp_seconds in milliseconds             *)
KeyframeOfFile(f) ==
    [frame_number |-> f.seq,
     timestamp |-> f.stamp,
     timestamp_seconds |->
        f.stamp.h * 3600000 + f.stamp.m * 60000 + f.stamp.s * 1000 + f.stamp.ms,
     filename |-> f,
     path |-> f]

Tolerance == 5000

MatchesStrict(segment, timestamp_sec) ==
    \/ segment.start < timestamp_sec /\ timestamp_sec < segment.end
    \/ Abs(segment.start - timestamp_sec) < Tolerance

(* lines 92-93: the keyframe lies in the segment's span or within 5        *)
(* seconds of its start                                                    *)
Matches(segment, timestamp_sec) ==
    \/ segment.start <= timestamp_sec /\ timestamp_sec <= segment.end
    \/ Abs(segment.start - timestamp_sec) <= Tolerance

(* lines 89-94: the texts of the matching segments, in segment order *)
RECURSIVE MatchingTexts(_, _)
MatchingTexts(segs, timestamp_sec) ==
    IF segs = <<>> THEN <<>>
    ELSE (IF Matches(Head(segs), timestamp_sec) THEN <<Head(segs).text>> ELSE <<>>)
         \o MatchingTexts(Tail(segs), timestamp_sec)

(* " ".join(texts) *)
RECURSIVE JoinSpace(_)
JoinSpace(texts) ==
    IF texts = <<>> THEN <<>>
    ELSE IF Len(texts) = 1 THEN texts[1]
    ELSE texts[1] \o <<" ">> \o JoinSpace(Tail(texts))

TitleLimit == 50

(* lines 111-115: re.split on the terminal marks, the first piece,         *)
(* stripped and cut to 50 characters                                       *)
Title(matching_texts) ==
    IF matching_texts = <<>> THEN <<>>
    ELSE LET first_text == matching_texts[1]
             marks == {j \in 1..Len(first_text) : first_text[j] \in TerminalMarks}
             piece == IF marks = {} THEN first_text
                      ELSE SubSeq(first_text, 1,
                                  (CHOOSE j \in marks : \A x \in marks : j <= x) - 1)
             clean == Strip(piece)
         IN SubSeq(clean, 1, Min(TitleLimit, Len(clean)))

(* lines 86-115: the slide of one keyframe *)
Slide(keyframe, segs) ==
    LET matching_texts == MatchingTexts(segs, keyframe.timestamp_seconds)
    IN [slide_number |-> keyframe.frame_number + 1,
        timestamp |-> keyframe.timestamp,
        timestamp_seconds |-> keyframe.timestamp_seconds,
        keyframe |-> [filename |-> keyframe.filename, path |-> keyframe.path],
        content |-> matching_texts,
        title |-> Title(matching_texts),
        speaker_text |-> JoinSpace(matching_texts)]

AddSlideIfText(list, slide) == IF slide.content = <<>> THEN list ELSE Append(list, slide)

(* line 117: slides.append(slide) *)
AddSlide(list, slide) == Append(list, slide)

(* Keyframe times, as the stamps of the file names: 5 s, 12 s and 50 s. *)
KeyframeStamps ==
    { [h |-> 0, m |-> 0, s |-> 5, ms |-> 0],
      [h |-> 0, m |-> 0, s |-> 12, ms |-> 0],
      [h |-> 0, m |-> 0, s |-> 50, ms |-> 0] }

(* Transcript segments: one a little before 12 s, one starting exactly 5 s *)
(* after it, one starting 1 ms later and lasting to 60 s, and one with no  *)
(* text.                                                                   *)
AsrSegmentPool ==
    { [start |-> 8000, end |-> 9000, text |-> <<"n", "o">>],
      [start |-> 10000, end |-> 11000, text |-> TextHelloWorld],
      [start |-> 17000, end |-> 18000, text |-> <<"o", "k">>],
      [start |-> 17001, end |-> 60000, text |-> <<"b", " ", "c", "!">>],
      [start |-> 49000, end |-> 49500, text |-> <<>>] }

InitAlign ==
    /\ pc = "match"
    /\ \E n \in 0..MaxKeyframes :
          \E stamps \in [1..n -> KeyframeStamps] :
              keyframes = [j \in 1..n |-> KeyframeOfFile(Filename(stamps[j], j - 1))]
    /\ asr_segments \in UNION {[1..n -> AsrSegmentPool] : n \in 0..MaxAsrSegments}
    /\ slides = <<>>
    /\ match_i = 1
    /\ video = [opens |-> FALSE, frames |-> <<>>, frame_count |-> 0, fps |-> 0]
    /\ sample_count = DefaultSampleCount
    /\ capture_interval = 0 /\ max_screenshots = 0
    /\ progress_callback = FALSE
    /\ ExtractIdle
    /\ AsrIdle
    /\ AuxIdle

(* one iteration of the loop over the keyframes *)
MatchStep ==
    /\ pc = "match"
    /\ match_i <= Len(keyframes)
    /\ slides' = AddSlide(slides, Slide(keyframes[match_i], asr_segments))
    /\ match_i' = match_i + 1
    /\ UNCHANGED <<pc, extVars, asrVars, keyframes, asr_segments, auxVars>>

(* line 119: return slides *)
MatchReturn ==
    /\ pc = "match"
    /\ match_i > Len(keyframes)
    /\ pc' = "matched"
    /\ UNCHANGED <<extVars, asrVars, alignVars, auxVars>>

NextAlign == MatchStep \/ MatchReturn

SpecAlign == InitAlign /\ [][NextAlign]_vars

----------------------------------------------------------------------------
(* The name of a keyframe file, written by extract_keyframes and read back *)
(* by extract_keyframe_info.                                               *)

DigitChars == <<"0", "1", "2", "3", "4", "5", "6", "7", "8", "9">>

IsDigit(c) == \E d \in 1..10 : DigitChars[d] = c

DigitValue(c) == (CHOOSE d \in 1..10 : DigitChars[d] = c) - 1

(* the decimal digits of n >= 0 *)
RECURSIVE Digits(_)
Digits(n) == IF n < 10 THEN <<DigitChars[n + 1]>>
             ELSE Digits(n \div 10) \o <<DigitChars[(n % 10) + 1]>>

RECURSIVE Zeros(_)
Zeros(n) == IF n <= 0 THEN <<>> ELSE <<"0">> \o Zeros(n - 1)

(* f"{n:0wd}": at least w digits, filled with zeros on the left *)
ZeroPad(n, w) == Zeros(w - Len(Digits(n))) \o Digits(n)

(* int() of a string of digits *)
RECURSIVE NumberOf(_)
NumberOf(cs) ==
    IF cs = <<>> THEN 0
    ELSE NumberOf(SubSeq(cs, 1, Len(cs) - 1)) * 10 + DigitValue(cs[Len(cs)])

NamePrefix == <<"k", "e", "y", "f", "r", "a", "m", "e", "_">>
NameSuffix == <<".", "j", "p", "g">>

(* extractor.py lines 267 and 344: the characters of                       *)
(* f"keyframe_{h:02d}-{m:02d}-{s:02d}-{ms:03d}_{screenshot_count:04d}.jpg" *)
FilenameText(f) ==
    NamePrefix \o ZeroPad(f.stamp.h, 2) \o <<"-">> \o ZeroPad(f.stamp.m, 2) \o <<"-">>
        \o ZeroPad(f.stamp.s, 2) \o <<"-">> \o ZeroPad(f.stamp.ms, 3) \o <<"_">>
        \o ZeroPad(f.seq, 4) \o NameSuffix

AllDigits(cs) == \A j \in 1..Len(cs) : IsDigit(cs[j])

(* the longest run of digits of cs that starts at position from *)
DigitRun(cs, from) ==
    LET stops == {j \in from..Len(cs) : ~IsDigit(cs[j])}
        last == IF stops = {} THEN Len(cs)
                ELSE (CHOOSE j \in stops : \A x \in stops : j <= x) - 1
    IN SubSeq(cs, from, last)

(***************************************************************************)
(* generate_structured_json.py lines 40-41: re.match of                    *)
(*   keyframe_(\d{2})-(\d{2})-(\d{2})-(\d{3})_(\d+)\.jpg                     *)
(* at the start of the name.  The groups as <<record>>, or <<>> when the   *)
(* name does not match.                                                    *)
(***************************************************************************)
MatchKeyframeName(cs) ==
    LET run == DigitRun(cs, 23)
        after == 23 + Len(run)
    IN IF /\ Len(cs) >= 22
          /\ SubSeq(cs, 1, 9) = NamePrefix
          /\ AllDigits(SubSeq(cs, 10, 11)) /\ cs[12] = "-"
          /\ AllDigits(SubSeq(cs, 13, 14)) /\ cs[15] = "-"
          /\ AllDigits(SubSeq(cs, 16, 17)) /\ cs[18] = "-"
          /\ AllDigits(SubSeq(cs, 19, 21)) /\ cs[22] = "_"
          /\ Len(run) >= 1
          /\ Len(cs) >= after + 3
          /\ SubSeq(cs, after, after + 3) = NameSuffix
       THEN <<[hours |-> SubSeq(cs, 10, 11), minutes |-> SubSeq(cs, 13, 14),
               seconds |-> SubSeq(cs, 16, 17), milliseconds |-> SubSeq(cs, 19, 21),
               frame_num |-> run]>>
       ELSE <<>>

(* lines 36-54 for one file of the directory: its record, if the name      *)
(* matches                                                                 *)
DecodeKeyframeName(cs) ==
    LET found == MatchKeyframeName(cs)
    IN IF found = <<>> THEN <<>>
       ELSE <<KeyframeOfFile(
                Filename([h |-> NumberOf(found[1].hours),
                          m |-> NumberOf(found[1].minutes),
                          s |-> NumberOf(found[1].seconds),
                          ms |-> NumberOf(found[1].milliseconds)],
                         NumberOf(found[1].frame_num)))>>

(* The keyframe whose file is named has a frame position of               *)
(* NamedPositions (the first frames, the turns of the minute, the hour and *)
(* the hundredth hour), a frame rate of NamedRates and a sequence number   *)
(* around the fourth digit.                                                *)
NamedCounts == {0, 1, 9999, 10000}

InitFilename ==
    /\ pc = "name"
    /\ frame_position \in NamedPositions
    /\ fps \in NamedRates
    /\ screenshot_count \in NamedCounts
    /\ video = [opens |-> FALSE, frames |-> <<>>, frame_count |-> 0, fps |-> 0]
    /\ sample_count = DefaultSampleCount
    /\ capture_interval = 0 /\ max_screenshots = 0
    /\ progress_callback = FALSE
    /\ frame_count = 0 /\ threshold = Real(0, 0, 1) /\ frame_interval = 0
    /\ prev_frame = <<>> /\ keyframes_info = <<>> /\ returned = NotReturned
    /\ total_frames_to_process = 0 /\ now = StartTime /\ last_progress_update = 0
    /\ calls = <<>> /\ written = <<>>
    /\ AsrIdle
    /\ AlignIdle
    /\ AuxIdle

(* extractor.py lines 252-253 and 267: the file of the keyframe is named *)
EncodeName ==
    /\ pc = "name"
    /\ \E ms \in Milliseconds(Timestamp(frame_position, fps)) :
          file_name' = FilenameText(Filename(format_timestamp(Timestamp(frame_position, fps), ms),
                                             screenshot_count))
    /\ pc' = "named"
    /\ UNCHANGED <<serverVars, extVars, asrVars, alignVars, decoded, batchVars, genVars, workerVars>>

(* extract_keyframe_info on the directory that holds this file *)
DecodeName ==
    /\ pc = "named"
    /\ decoded' = DecodeKeyframeName(file_name)
    /\ pc' = "decoded"
    /\ UNCHANGED <<serverVars, extVars, asrVars, alignVars, file_name, batchVars, genVars, workerVars>>

NextFilename == EncodeName \/ DecodeName

SpecFilename == InitFilename /\ [][NextFilename]_vars

----------------------------------------------------------------------------
(* generate_structured_json.py: load_asr_data and generate_structured_json.*)
(*                                                                         *)
(* The transcript file is what json.load makes of it.  Its kind is         *)
(* "unparsable" (json.load raises), "object" (a dict with a 'segments'     *)
(* list), "object_without_segments", "object_segments_null" (the value of  *)
(* 'segments' is null), "array" (a top-level list) or "scalar" (a number,  *)
(* a string or null).  An item of a list is a "segment" (a dict with       *)
(* start, end and a string text), a "number", a dict with "no_times" (only *)
(* a text) or a dict with a "null_text".                                   *)

ItemPool ==
    { [kind |-> "segment", start |-> 4000, end |-> 6000, text |-> <<"o", "k", " ">>],
      [kind |-> "number", start |-> 0, end |-> 0, text |-> <<>>],
      [kind |-> "no_times", start |-> 0, end |-> 0, text |-> <<"h", "i">>],
      [kind |-> "null_text", start |-> 4000, end |-> 6000, text |-> <<>>] }

AsrFiles ==
    { [kind |-> k, items |-> <<>>] :
          k \in {"unparsable", "object_without_segments", "object_segments_null",
                 "scalar"} }
    \cup { [kind |-> k, items |-> items] :
               k \in {"object", "array"},
               items \in UNION {[1..n -> ItemPool] : n \in 0..MaxAsrSegments} }

(* lines 68-72: the dict rebuilt from an item of 'segments'; .get supplies *)
(* 0 for a missing start or end                                            *)
Rebuilt(item) ==
    [kind |-> "segment",
     start |-> IF item.kind = "no_times" THEN 0 ELSE item.start,
     end |-> IF item.kind = "no_times" THEN 0 ELSE item.end,
     text |-> Strip(item.text)]

(* lines 67-72 raise on an item without .get (a number) and on a text      *)
(* without .strip (null)                                                   *)
RebuildRaises(items) ==
    \E j \in 1..Len(items) : items[j].kind \in {"number", "null_text"}

(* lines 58-79: a dict's 'segments' are rebuilt (66-72), a top-level list  *)
(* is taken as it is (73-74), anything else gives no segments, and every   *)
(* exception gives [] (77-79)                                              *)
load_asr_data(file) ==
    CASE file.kind = "object" ->
             IF RebuildRaises(file.items) THEN <<>>
             ELSE [j \in 1..Len(file.items) |-> Rebuilt(file.items[j])]
      [] file.kind = "array" -> file.items
      [] OTHER -> <<>>

(* lines 90-94, 107: subscripting a number or a dict without 'start'       *)
(* raises; a null text that matches is put into matching_texts and         *)
(* " ".join raises on it                                                   *)
SlideRaises(keyframe, segs) ==
    \E j \in 1..Len(segs) :
        \/ segs[j].kind \in {"number", "no_times"}
        \/ segs[j].kind = "null_text" /\ Matches(segs[j], keyframe.timestamp_seconds)

HasText(slide) == slide.speaker_text # <<>>

(* lines 141-182: the structured document, by the fields that count *)
Document(frames, segs, slide_list) ==
    [total_slides |-> Len(slide_list),
     total_keyframes |-> Len(frames),
     total_asr_segments |-> Len(segs),
     duration_seconds |->
         IF frames = <<>> THEN 0 ELSE frames[Len(frames)].timestamp_seconds,
     slides |-> slide_list,
     slides_with_text |->
         Cardinality({j \in 1..Len(slide_list) : HasText(slide_list[j])}),
     slides_without_text |->
         Cardinality({j \in 1..Len(slide_list) : ~HasText(slide_list[j])})]

InitGenerate ==
    /\ pc = "generate"
    /\ \E n \in 0..MaxKeyframes :
          \E stamps \in [1..n -> KeyframeStamps] :
              keyframes = [j \in 1..n |-> KeyframeOfFile(Filename(stamps[j], j - 1))]
    /\ asr_file \in AsrFiles
    /\ output_writable \in BOOLEAN
    /\ document = <<>>
    /\ asr_segments = <<>>
    /\ slides = <<>>
    /\ match_i = 0
    /\ video = [opens |-> FALSE, frames |-> <<>>, frame_count |-> 0, fps |-> 0]
    /\ sample_count = DefaultSampleCount
    /\ capture_interval = 0 /\ max_screenshots = 0
    /\ progress_callback = FALSE
    /\ ExtractIdle
    /\ AsrIdle
    /\ FileIdle
    /\ BatchIdle
    /\ WorkersIdle
    /\ ServerIdle

(* lines 128-133: the keyframes are read and the transcript is loaded *)
LoadInputs ==
    /\ pc = "generate"
    /\ asr_segments' = load_asr_data(asr_file)
    /\ match_i' = 1
    /\ pc' = "generate_match"
    /\ UNCHANGED <<serverVars, extVars, asrVars, keyframes, slides, fileVars, batchVars, genVars,
                   workerVars>>

(* line 138: one iteration of match_keyframes_with_asr's loop *)
GenerateMatchStep ==
    /\ pc = "generate_match"
    /\ match_i <= Len(keyframes)
    /\ ~SlideRaises(keyframes[match_i], asr_segments)
    /\ slides' = AddSlide(slides, Slide(keyframes[match_i], asr_segments))
    /\ match_i' = match_i + 1
    /\ UNCHANGED <<pc, extVars, asrVars, keyframes, asr_segments, auxVars>>

(* line 138 raises and lines 194-196 return None *)
GenerateMatchRaise ==
    /\ pc = "generate_match"
    /\ match_i <= Len(keyframes)
    /\ SlideRaises(keyframes[match_i], asr_segments)
    /\ document' = <<>>
    /\ pc' = "generated"
    /\ UNCHANGED <<serverVars, extVars, asrVars, alignVars, fileVars, batchVars, workerVars,
                   asr_file, output_writable>>

(* lines 141-192: the document is built, saved and returned; a failure of  *)
(* the save (185-187) is caught at 194-196, which return None              *)
BuildDocument ==
    /\ pc = "generate_match"
    /\ match_i > Len(keyframes)
    /\ document' = IF output_writable
                   THEN <<Document(keyframes, asr_segments, slides)>>
                   ELSE <<>>
    /\ pc' = "generated"
    /\ UNCHANGED <<serverVars, extVars, asrVars, alignVars, fileVars, batchVars, workerVars,
                   asr_file, output_writable>>

NextGenerate == LoadInputs \/ GenerateMatchStep \/ GenerateMatchRaise \/ BuildDocument

SpecGenerate == InitGenerate /\ [][NextGenerate]_vars

----------------------------------------------------------------------------
(* mineru_keyframe_processor.py: process_all_videos.                       *)
(*                                                                         *)
(* A video folder is its name and what happens to it: whether              *)
(* create_pdf_from_images succeeds, how the conversion tool ends ("ok" for *)
(* exit status 0, "nonzero", "timeout", or "error" for any other exception *)
(* inside process_pdf_with_mineru), and whether the folder's result file   *)
(* can be written.  A result record keeps the fields the summary reads.    *)

VideoNames == <<"a", "b", "c", "d">>

ToolOutcomes == {"ok", "nonzero", "timeout", "error"}

(* lines 103-184: create_pdf_from_images returns False on every failure,   *)
(* so a failed PDF leaves the tool and nothing to say about it.            *)
FolderFates ==
    { f \in [pdf : BOOLEAN, tool : ToolOutcomes, write : BOOLEAN] :
          ~f.pdf => f.tool = "ok" }

Folder(name, fate) ==
    [name |-> name, pdf |-> fate.pdf, tool |-> fate.tool, write |-> fate.write]

(* lines 186-265: status "success" on exit status 0 (231-237), "error" on  *)
(* a nonzero status (240-246), on the timeout (248-256) and on any other   *)
(* exception (257-265); no exception leaves the function.                  *)
process_pdf_with_mineru_unchecked(video_name, tool) ==
    [video_name |-> video_name, status |-> "success", error |-> "none"]

process_pdf_with_mineru(video_name, tool) ==
    [video_name |-> video_name,
     status |-> IF tool = "ok" THEN "success" ELSE "error",
     error |-> CASE tool = "ok" -> "none"
                 [] tool = "nonzero" -> "stderr"
                 [] tool = "timeout" -> "timeout"
                 [] OTHER -> "exception"]

(* lines 433-453: final_result *)
FinalResult(folder) ==
    IF folder.pdf
    THEN LET mineru_result == process_pdf_with_mineru(folder.name, folder.tool)
         IN  [video_name |-> mineru_result.video_name,
              status |-> mineru_result.status,
              error |-> mineru_result.error,
              pdf_created |-> "true"]
    ELSE [video_name |-> folder.name, status |-> "error", error |-> "pdf",
          pdf_created |-> "false"]

(* lines 466-474: error_result, which has no pdf_created key *)
ErrorResult(video_name) ==
    [video_name |-> video_name, status |-> "error", error |-> "exception",
     pdf_created |-> "absent"]

(* lines 432-474, one pass of the loop body: final_result is appended      *)
(* (455) before the result file is written (458-462), and a failure of     *)
(* that write is caught by the handler, which appends error_result (474).  *)
AfterFolder(results, folder) ==
    LET appended == Append(results, FinalResult(folder))
    IN  IF folder.write THEN appended
        ELSE Append(appended, ErrorResult(folder.name))

CountStatus(results, status) ==
    Cardinality({k \in 1..Len(results) : results[k].status = status})

(* lines 478-486: the content of processing_summary.json *)
Summary(folders, results) ==
    [total_videos |-> Len(folders),
     processed_videos |-> Len(results),
     successful_videos |-> CountStatus(results, "success"),
     failed_videos |-> CountStatus(results, "error"),
     results |-> results]

InitBatch ==
    /\ pc = "batch"
    /\ \E n \in 0..MaxVideos :
          \E fates \in [1..n -> FolderFates] :
              video_folders = [j \in 1..n |-> Folder(VideoNames[j], fates[j])]
    /\ summary_writable \in BOOLEAN
    /\ batch_i = 1
    /\ all_results = <<>>
    /\ summary = <<>>
    /\ video = [opens |-> FALSE, frames |-> <<>>, frame_count |-> 0, fps |-> 0]
    /\ sample_count = DefaultSampleCount
    /\ capture_interval = 0 /\ max_screenshots = 0
    /\ progress_callback = FALSE
    /\ ExtractIdle
    /\ AsrIdle
    /\ AlignIdle
    /\ FileIdle
    /\ GenIdle
    /\ WorkersIdle
    /\ ServerIdle

(* lines 422-424: no folder, return [] and write no summary *)
NoFolders ==
    /\ pc = "batch"
    /\ video_folders = <<>>
    /\ pc' = "batch_empty"
    /\ UNCHANGED <<serverVars, extVars, asrVars, alignVars, fileVars, batchVars, genVars, workerVars>>

(* lines 428-474: one iteration of the loop over the folders *)
ProcessVideo ==
    /\ pc = "batch"
    /\ video_folders # <<>>
    /\ batch_i <= Len(video_folders)
    /\ all_results' = AfterFolder(all_results, video_folders[batch_i])
    /\ batch_i' = batch_i + 1
    /\ UNCHANGED <<serverVars, pc, extVars, asrVars, alignVars, fileVars, genVars, workerVars,
                   video_folders, summary_writable, summary>>

(* lines 476-492: the summary is written and all_results returned *)
WriteSummary ==
    /\ pc = "batch"
    /\ video_folders # <<>>
    /\ batch_i > Len(video_folders)
    /\ summary_writable
    /\ summary' = <<Summary(video_folders, all_results)>>
    /\ pc' = "batch_done"
    /\ UNCHANGED <<serverVars, extVars, asrVars, alignVars, fileVars, genVars, workerVars,
                   video_folders, summary_writable, batch_i, all_results>>

(* lines 477-478: open() of the summary file raises, outside any handler *)
WriteSummaryFail ==
    /\ pc = "batch"
    /\ video_folders # <<>>
    /\ batch_i > Len(video_folders)
    /\ ~summary_writable
    /\ pc' = "batch_raised"
    /\ UNCHANGED <<serverVars, extVars, asrVars, alignVars, fileVars, batchVars, genVars, workerVars>>

NextBatch == NoFolders \/ ProcessVideo \/ WriteSummary \/ WriteSummaryFail

SpecBatch == InitBatch /\ [][NextBatch]_vars

----------------------------------------------------------------------------
(* server.py lines 28-29 and extractor.py lines 226-262: calls of          *)
(* extract_keyframes on the one module-level extractor.                    *)
(*                                                                         *)
(* Each worker is a thread of the server process handling the extraction   *)
(* of its own video; worker w's video lasts w seconds.  The calls pass     *)
(* either the keywords of server.py lines 109-115, force_interval among    *)
(* them, which extract_keyframes does not accept (the call raises          *)
(* TypeError before line 200 and the handler answers 500), or the          *)
(* parameters of the signature at lines 178-185.                           *)

MaxWorkers == 2

Workers == 1..MaxWorkers

DurationOf(w) == w * 1000

Inside == {"entered", "assigned", "scanning", "finishing"}

Access(w, field, kind) == [worker |-> w, field |-> field, kind |-> kind]

InitWorkers ==
    /\ pc = "workers"
    /\ keywords \in {"force_interval", "signature"}
    /\ worker_callback \in [Workers -> BOOLEAN]
    /\ keywords = "force_interval" => \A w \in Workers : ~worker_callback[w]
    /\ worker_pc = [w \in Workers |-> "request"]
    /\ extractor_video_duration = 0
    /\ observed = [w \in Workers |-> 0]
    /\ accesses = {}
    /\ overlapped = {}
    /\ video = [opens |-> FALSE, frames |-> <<>>, frame_count |-> 0, fps |-> 0]
    /\ sample_count = DefaultSampleCount
    /\ capture_interval = 0 /\ max_screenshots = 0
    /\ progress_callback = FALSE
    /\ ExtractIdle
    /\ AsrIdle
    /\ AlignIdle
    /\ FileIdle
    /\ BatchIdle
    /\ GenIdle
    /\ ServerIdle

(* server.py lines 109-115 and 140-141: the unexpected keyword raises      *)
(* TypeError at the call and the handler answers 500                       *)
CallRejected(w) ==
    /\ pc = "workers"
    /\ worker_pc[w] = "request"
    /\ keywords = "force_interval"
    /\ worker_pc' = [worker_pc EXCEPT ![w] = "error_500"]
    /\ UNCHANGED <<serverVars, pc, extVars, asrVars, alignVars, fileVars, batchVars, genVars,
                   keywords, worker_callback, extractor_video_duration, observed,
                   accesses, overlapped>>

(* extractor.py lines 199-224: the call is bound and the video opened *)
CallEnters(w) ==
    /\ pc = "workers"
    /\ worker_pc[w] = "request"
    /\ keywords = "signature"
    /\ worker_pc' = [worker_pc EXCEPT ![w] = "entered"]
    /\ overlapped' = overlapped \cup
           {{w, x} : x \in {y \in Workers : y # w /\ worker_pc[y] \in Inside}}
    /\ UNCHANGED <<serverVars, pc, extVars, asrVars, alignVars, fileVars, batchVars, genVars,
                   keywords, worker_callback, extractor_video_duration, observed,
                   accesses>>

(* line 227: self.video_duration = self.get_video_duration(video_path) *)
AssignDuration(w) ==
    /\ pc = "workers"
    /\ worker_pc[w] = "entered"
    /\ extractor_video_duration' = DurationOf(w)
    /\ accesses' = accesses \cup {Access(w, "video_duration", "write")}
    /\ worker_pc' = [worker_pc EXCEPT ![w] = "assigned"]
    /\ UNCHANGED <<serverVars, pc, extVars, asrVars, alignVars, fileVars, batchVars, genVars,
                   keywords, worker_callback, observed, overlapped>>

(* lines 228-229: self.video_duration is read back for the debug line *)
ReadDuration(w) ==
    /\ pc = "workers"
    /\ worker_pc[w] = "assigned"
    /\ observed' = [observed EXCEPT ![w] = extractor_video_duration]
    /\ accesses' = accesses \cup {Access(w, "video_duration", "read")}
    /\ worker_pc' = [worker_pc EXCEPT ![w] = "scanning"]
    /\ UNCHANGED <<serverVars, pc, extVars, asrVars, alignVars, fileVars, batchVars, genVars,
                   keywords, worker_callback, extractor_video_duration, overlapped>>

(* lines 259-262: with a callback, self.last_progress_update is read, and  *)
(* written after the callback (the first reading of the clock is far more  *)
(* than half a second past the initial 0); without one the condition stops *)
(* at progress_callback                                                    *)
ScanVideo(w) ==
    /\ pc = "workers"
    /\ worker_pc[w] = "scanning"
    /\ accesses' = IF worker_callback[w]
                   THEN accesses \cup {Access(w, "last_progress_update", "read"),
                                       Access(w, "last_progress_update", "write")}
                   ELSE accesses
    /\ worker_pc' = [worker_pc EXCEPT ![w] = "finishing"]
    /\ UNCHANGED <<serverVars, pc, extVars, asrVars, alignVars, fileVars, batchVars, genVars,
                   keywords, worker_callback, extractor_video_duration, observed,
                   overlapped>>

(* lines 317-328: the call returns *)
WorkerReturn(w) ==
    /\ pc = "workers"
    /\ worker_pc[w] = "finishing"
    /\ worker_pc' = [worker_pc EXCEPT ![w] = "done"]
    /\ UNCHANGED <<serverVars, pc, extVars, asrVars, alignVars, fileVars, batchVars, genVars,
                   keywords, worker_callback, extractor_video_duration, observed,
                   accesses, overlapped>>

NextWorkers ==
    \E w \in Workers :
        \/ CallRejected(w)
        \/ CallEnters(w)
        \/ AssignDuration(w)
        \/ ReadDuration(w)
        \/ ScanVideo(w)
        \/ WorkerReturn(w)

SpecWorkers == InitWorkers /\ [][NextWorkers]_vars

----------------------------------------------------------------------------
(* server.py lines 81-141: the /extract endpoint.                          *)
(*                                                                         *)
(* The request is the JSON body (whether it names a file) and whether the  *)
(* named file is in the upload folder; the file's content is in video and  *)
(* the body's interval and max_frames are in capture_interval and          *)
(* max_screenshots.  The response is the HTTP status and, on success, the  *)
(* frame numbers of the keyframes listed.                                  *)

(* extractor.py lines 178-185: the parameters extract_keyframes takes *)
AcceptedParameters ==
    {"video_path", "output_dir", "capture_interval", "max_screenshots",
     "progress_callback"}

(* server.py lines 109-115: the keywords the handler passes *)
PassedKeywords ==
    {"video_path", "output_dir", "capture_interval", "max_screenshots",
     "force_interval"}

(* a call binds when every keyword is a parameter; otherwise TypeError *)
Binds(passed) == passed \subseteq AcceptedParameters

(* extractor.py lines 243-315: the frame numbers the scan emits from       *)
(* position pos on, prev being the previous frame and emitted the frame    *)
(* numbers so far                                                          *)
RECURSIVE ScanFrom(_, _, _, _, _, _, _)
ScanFrom(v, interval, cap, thr, pos, prev, emitted) ==
    IF ~(pos < v.frame_count /\ Len(emitted) < cap) THEN emitted
    ELSE IF ~CanRead(v, pos) THEN emitted
    ELSE LET frame == FrameAt(v, pos)
             emit == \/ prev = <<>>
                     \/ IsSceneChange(calculate_frame_difference(prev[1], frame), thr)
         IN ScanFrom(v, interval, cap, thr, Advance(pos, interval), <<frame>>,
                     IF emit THEN Append(emitted, pos) ELSE emitted)

(* extractor.py lines 199-328 for a video that opens: the frame numbers of *)
(* the list extract_keyframes returns                                      *)
ExtractedFrames(v, ci, cap) ==
    ScanFrom(v, FrameInterval(ci, EffectiveFps(v)), cap,
             calculate_adaptive_threshold(v, DefaultSampleCount), 0, <<>>, <<>>)

Response(status, frames) == [status |-> status, keyframes |-> frames]

InitEndpoint ==
    /\ pc = "post"
    /\ request \in [has_filename : BOOLEAN, exists : BOOLEAN]
    /\ response = NoResponse
    /\ video \in {v \in Videos : v.frame_count \in ReportedCounts(Len(v.frames))}
    /\ sample_count = DefaultSampleCount
    /\ capture_interval \in {1, 2}
    /\ max_screenshots \in 1..MaxCap
    /\ progress_callback = FALSE
    /\ ExtractIdle
    /\ AsrIdle
    /\ AlignIdle
    /\ FileIdle
    /\ BatchIdle
    /\ GenIdle
    /\ WorkersIdle
    /\ DirectoryIdle
    /\ LazyIdle

(* lines 84-141, the whole handler: 400 without a file name (86-87), 404   *)
(* when the file is not there (92-93); inside the try, get_video_duration  *)
(* raises on a video that does not open (105) and the call of              *)
(* extract_keyframes raises TypeError when a keyword is not a parameter    *)
(* (109-115), both answered with 500 (140-141); otherwise success with one *)
(* entry per keyframe (117-138)                                            *)
HandleExtract ==
    /\ pc = "post"
    /\ response' =
          IF ~request.has_filename THEN Response(400, <<>>)
          ELSE IF ~request.exists THEN Response(404, <<>>)
          ELSE IF ~IsOpened(video) THEN Response(500, <<>>)
          ELSE IF ~Binds(PassedKeywords) THEN Response(500, <<>>)
          ELSE Response(200, ExtractedFrames(video, capture_interval, max_screenshots))
    /\ pc' = "responded"
    /\ UNCHANGED <<extVars, asrVars, alignVars, fileVars, batchVars, genVars,
                   workerVars, dirVars, lazyVars, request>>

NextEndpoint == HandleExtract

SpecEndpoint == InitEndpoint /\ [][NextEndpoint]_vars

----------------------------------------------------------------------------
(* One video's output directory: extraction runs into it (extractor.py     *)
(* lines 199-200 and 267-271), deletions of keyframes (server.py lines     *)
(* 204-242) and the slides made from what it holds                         *)
(* (generate_structured_json.py lines 26-56 and 96-108).                   *)

MaxRuns == 2

(* The videos of the directory: one frame a second, the reported count     *)
(* exact, each frame black or bright.                                      *)
DirectoryVideos ==
    {v \in Videos :
        /\ v.opens /\ v.fps = 1 /\ v.frame_count = Len(v.frames)
        /\ \A j \in 1..Len(v.frames) : v.frames[j] \in {0, 150}}

(* extractor.py lines 252-253 and 267: the name of the file written for    *)
(* the keyframe at position pos, the count-th of its run; at the model's   *)
(* rates the milliseconds are exact                                        *)
RunFile(v, pos, count) ==
    LET ts == Timestamp(pos, EffectiveFps(v))
    IN Filename(format_timestamp(ts, CHOOSE ms \in Milliseconds(ts) : TRUE), count)

(* extractor.py lines 199-328: the files one run writes; os.makedirs with  *)
(* exist_ok leaves what the directory already holds                        *)
RunFiles(v, ci, cap) ==
    LET frames == ExtractedFrames(v, ci, cap)
    IN {RunFile(v, frames[k], k - 1) : k \in 1..Len(frames)}

(* the orders of a set *)
RECURSIVE Orders(_)
Orders(S) ==
    IF S = {} THEN {<<>>}
    ELSE UNION {{<<x>> \o rest : rest \in Orders(S \ {x})} : x \in S}

(* generate_structured_json.py lines 31-34: the files sorted by the number *)
(* after the last underscore; files with the same number keep the order    *)
(* glob gave them in, which is any order                                   *)
RECURSIVE SortedListings(_)
SortedListings(files) ==
    IF files = {} THEN {<<>>}
    ELSE LET least == CHOOSE n \in {f.seq : f \in files} :
                          \A f \in files : n <= f.seq
             first == {f \in files : f.seq = least}
         IN UNION {{head \o rest : rest \in SortedListings(files \ first)} :
                       head \in Orders(first)}

InitDirectory ==
    /\ pc = "directory"
    /\ video \in DirectoryVideos
    /\ directory = {}
    /\ runs = 0
    /\ keyframes = <<>> /\ asr_segments = <<>> /\ slides = <<>> /\ match_i = 0
    /\ sample_count = DefaultSampleCount
    /\ capture_interval = 0 /\ max_screenshots = 0
    /\ progress_callback = FALSE
    /\ ExtractIdle
    /\ AsrIdle
    /\ FileIdle
    /\ BatchIdle
    /\ GenIdle
    /\ WorkersIdle
    /\ EndpointIdle
    /\ LazyIdle

(* extractor.py lines 178-328: a run of extract_keyframes into the         *)
(* directory, with a capture interval of 1 or 2 seconds and some cap       *)
RunExtraction ==
    /\ pc = "directory"
    /\ runs < MaxRuns
    /\ \E ci \in {2, 4}, cap \in 1..MaxCap :
          directory' = directory \cup RunFiles(video, ci, cap)
    /\ runs' = runs + 1
    /\ UNCHANGED <<pc, extVars, asrVars, alignVars, fileVars, batchVars, genVars,
                   workerVars, endpointVars, lazyVars>>

(* server.py lines 204-242: the files named by the request are removed *)
DeleteKeyframes ==
    /\ pc = "directory"
    /\ \E urls \in (SUBSET directory) \ {{}} : directory' = directory \ urls
    /\ UNCHANGED <<pc, extVars, asrVars, alignVars, fileVars, batchVars, genVars,
                   workerVars, endpointVars, lazyVars, runs>>

(* generate_structured_json.py lines 128-138: the keyframes are read from  *)
(* the directory and the slides made, with no transcript                   *)
GenerateSlides ==
    /\ pc = "directory"
    /\ \E listing \in SortedListings(directory) :
          /\ keyframes' = [j \in 1..Len(listing) |-> KeyframeOfFile(listing[j])]
          /\ slides' = [j \in 1..Len(listing) |->
                            Slide(KeyframeOfFile(listing[j]), <<>>)]
    /\ pc' = "slides"
    /\ UNCHANGED <<extVars, asrVars, asr_segments, match_i, fileVars, batchVars,
                   genVars, workerVars, endpointVars, dirVars, lazyVars>>

NextDirectory == RunExtraction \/ DeleteKeyframes \/ GenerateSlides

SpecDirectory == InitDirectory /\ [][NextDirectory]_vars

----------------------------------------------------------------------------
(* server.py lines 31-38 and 244-293: get_asr_processor and /process_asr.  *)
(*                                                                         *)
(* Each thread of the server handles one POST.  The interpreter runs one   *)
(* thread at a time and may switch between any two of the steps below;     *)
(* loading the model inside ASRProcessor() takes long.                     *)

AsrRequests == {"ok", "no_filename", "no_file"}

InitLazy ==
    /\ pc = "serving"
    /\ asr_processor = 0
    /\ instances = 0
    /\ asr_request \in [Workers -> AsrRequests]
    /\ asr_pc = [w \in Workers |-> "post"]
    /\ asr_made = [w \in Workers |-> 0]
    /\ processor = [w \in Workers |-> 0]
    /\ video = [opens |-> FALSE, frames |-> <<>>, frame_count |-> 0, fps |-> 0]
    /\ sample_count = DefaultSampleCount
    /\ capture_interval = 0 /\ max_screenshots = 0
    /\ progress_callback = FALSE
    /\ ExtractIdle
    /\ AsrIdle
    /\ AlignIdle
    /\ FileIdle
    /\ BatchIdle
    /\ GenIdle
    /\ WorkersIdle
    /\ EndpointIdle
    /\ DirectoryIdle

LazyUnchanged ==
    UNCHANGED <<pc, extVars, asrVars, alignVars, fileVars, batchVars, genVars,
                workerVars, endpointVars, dirVars, asr_request>>

(* lines 249-256: 400 without a file name, 404 without the file *)
RejectAsr(w) ==
    /\ pc = "serving"
    /\ asr_pc[w] = "post"
    /\ asr_request[w] # "ok"
    /\ asr_pc' = [asr_pc EXCEPT ![w] = "rejected"]
    /\ LazyUnchanged
    /\ UNCHANGED <<asr_processor, instances, asr_made, processor>>

(* lines 258-268 and 33-34: get_asr_processor is entered and the module's  *)
(* variable is tested against None                                         *)
TestProcessor(w) ==
    /\ pc = "serving"
    /\ asr_pc[w] = "post"
    /\ asr_request[w] = "ok"
    /\ asr_pc' = [asr_pc EXCEPT ![w] = IF asr_processor = 0 THEN "construct"
                                       ELSE "return"]
    /\ LazyUnchanged
    /\ UNCHANGED <<asr_processor, instances, asr_made, processor>>

(* line 36, right-hand side: ASRProcessor(model_name="base") *)
ConstructProcessor(w) ==
    /\ pc = "serving"
    /\ asr_pc[w] = "construct"
    /\ instances' = instances + 1
    /\ asr_made' = [asr_made EXCEPT ![w] = instances + 1]
    /\ asr_pc' = [asr_pc EXCEPT ![w] = "store"]
    /\ LazyUnchanged
    /\ UNCHANGED <<asr_processor, processor>>

(* line 36, the assignment to the module's variable *)
StoreProcessor(w) ==
    /\ pc = "serving"
    /\ asr_pc[w] = "store"
    /\ asr_processor' = asr_made[w]
    /\ asr_made' = [asr_made EXCEPT ![w] = 0]
    /\ asr_pc' = [asr_pc EXCEPT ![w] = "return"]
    /\ LazyUnchanged
    /\ UNCHANGED <<instances, processor>>

(* lines 37 and 268: return asr_processor, bound to the handler's          *)
(* processor                                                               *)
ReturnProcessor(w) ==
    /\ pc = "serving"
    /\ asr_pc[w] = "return"
    /\ processor' = [processor EXCEPT ![w] = asr_processor]
    /\ asr_pc' = [asr_pc EXCEPT ![w] = "process"]
    /\ LazyUnchanged
    /\ UNCHANGED <<asr_processor, instances, asr_made>>

(* lines 270-293: processor.process_video and the answer *)
ProcessVideoAsr(w) ==
    /\ pc = "serving"
    /\ asr_pc[w] = "process"
    /\ asr_pc' = [asr_pc EXCEPT ![w] = "answered"]
    /\ LazyUnchanged
    /\ UNCHANGED <<asr_processor, instances, asr_made, processor>>

NextLazy ==
    \E w \in Workers :
        \/ RejectAsr(w)
        \/ TestProcessor(w)
        \/ ConstructProcessor(w)
        \/ StoreProcessor(w)
        \/ ReturnProcessor(w)
        \/ ProcessVideoAsr(w)

SpecLazy == InitLazy /\ [][NextLazy]_vars

----------------------------------------------------------------------------
(* Properties of the extractor.                                            *)

(* C1: in the list extract_keyframes returns, frame indices and timestamps *)
(* are strictly increasing from each keyframe to the next.                 *)
C1_StrictlyIncreasing ==
    pc = "returned" =>
        \A i \in 1..(Len(returned) - 1) :
            /\ returned[i].frame_number < returned[i + 1].frame_number
            /\ TsLess(returned[i].timestamp, returned[i + 1].timestamp)

C1_Witness ==
    /\ pc = "returned"
    /\ Len(returned) >= 3
    /\ fps = 2

(* C2: a video that opens and whose frame 0 can be read yields a non-empty *)
(* list whose first record has frame index 0, timestamp 0 and difference   *)
(* 0.0, whatever the cap and the reported frame count.                     *)
C2_FirstFrameAlwaysEmitted ==
    (pc = "returned" /\ video.opens /\ CanRead(video, 0)) =>
        /\ Len(returned) >= 1
        /\ returned[1].frame_number = 0
        /\ returned[1].timestamp[1] = 0
        /\ returned[1].difference = 0

(* C3: the value calculate_adaptive_threshold returns lies in [0.05, 0.3], *)
(* that is in [12.75, 76.5] / 255, for every set of sampled differences    *)
(* and on the fallback paths.                                              *)
C3_ThresholdInRange ==
    pc = "threshold_returned" =>
        /\ ~RealLt(threshold, 51, 4)
        /\ ~RealGt(threshold, 153, 2)

(* the clamp acted: mean + 0.5 * std of the samples is above 0.3 *)
C3_Witness ==
    /\ pc = "threshold_returned"
    /\ video.frame_count > 1
    /\ Len(SampleDifferences(video, sample_count)) >= 2
    /\ RealGt(MeanPlusHalfStd(SampleDifferences(video, sample_count)), 153, 2)
    /\ threshold = ThresholdCeil

AllFramesIdentical(v) == \A i, j \in 1..Len(v.frames) : v.frames[i] = v.frames[j]

----------------------------------------------------------------------------
(* Properties of the transcript processing.                                *)

MergeDone == pc \in {"split", "apportion", "transcribed"} /\ segments # <<>>

(* the k-th smallest element of a set of numbers *)
Kth(S, k) == CHOOSE x \in S : Cardinality({y \in S : y < x}) = k - 1

(* With the raw segments cut after the indices in cuts, the first and the *)
(* last raw segment of the k-th group.                                    *)
GroupFirst(cuts, k) == IF k = 1 THEN 1 ELSE Kth(cuts, k - 1) + 1
GroupLast(cuts, k, n) == IF k = Cardinality(cuts) + 1 THEN n ELSE Kth(cuts, k)

(* C7: the merged sequence starts at the input's first start and ends at   *)
(* the input's last end, and the merged segments are the spans of          *)
(* consecutive groups of raw segments: from the start of a group's first   *)
(* raw segment to the end of its last one.                                 *)
C7_MergedSpans ==
    MergeDone =>
        /\ merged[1].start = segments[1].start
        /\ merged[Len(merged)].end = segments[Len(segments)].end
        /\ \E cuts \in SUBSET (1..(Len(segments) - 1)) :
              /\ Cardinality(cuts) = Len(merged) - 1
              /\ \A k \in 1..Len(merged) :
                    /\ merged[k].start = segments[GroupFirst(cuts, k)].start
                    /\ merged[k].end = segments[GroupLast(cuts, k, Len(segments))].end

(* three raw segments, the first two merged and the third on its own *)
C7_Witness ==
    /\ MergeDone
    /\ Len(segments) = 3
    /\ Len(merged) = 2
    /\ merged[1].end = segments[2].end
    /\ merged[2].start = segments[3].start

WordsOf(segs) == Flatten([j \in 1..Len(segs) |-> Words(segs[j].text)])

(* C8: the words of the merged texts, in output order, are the words of    *)
(* the raw texts in input order.                                           *)
C8_WordsPreserved == MergeDone => WordsOf(merged) = WordsOf(segments)

C8_Witness ==
    /\ MergeDone
    /\ Len(merged) < Len(segments)
    /\ Len(WordsOf(merged)) >= 3
    /\ \E k \in 1..Len(merged) : Len(Words(merged[k].text)) >= 3

(* the raw segments {0.0, 1.0, "Hello."} and {1.0, 2.0, "world"} *)
HelloWorldInput ==
    /\ Len(segments) = 2
    /\ segments[1].start = 0 /\ segments[1].end = 1000 /\ segments[1].text = TextHello
    /\ segments[2].start = 1000 /\ segments[2].end = 2000 /\ segments[2].text = TextWorld

(* C9 as stated: the two raw segments merge into one segment [0.0, 2.0]    *)
(* "Hello. world", apportioned into "Hello." and "world" with durations    *)
(* in the proportion 6 to 5 (to the rounding of 0.01 s).                   *)
C9_MergedIntoOne ==
    (pc = "transcribed" /\ HelloWorldInput) =>
        /\ Len(merged) = 1
        /\ merged[1].start = 0 /\ merged[1].end = 2000
        /\ merged[1].text = TextHello \o <<" ">> \o TextWorld
        /\ Len(all_sentences) = 2
        /\ all_sentences[1].text = TextHello
        /\ all_sentences[2].text = TextWorld
        /\ Abs(11 * (all_sentences[1].end - all_sentences[1].start) - 6 * 2000) <= 110
        /\ Abs(11 * (all_sentences[2].end - all_sentences[2].start) - 5 * 2000) <= 110

(* C9 amended: "Hello." ends with a terminal mark, so the accumulator is   *)
(* closed: two merged segments [0.0, 1.0] "Hello." and [1.0, 2.0] "world", *)
(* each one sentence that keeps its segment's span.                        *)
C9_KeptApart ==
    (pc = "transcribed" /\ HelloWorldInput) =>
        /\ Len(merged) = 2
        /\ merged[1].start = 0 /\ merged[1].end = 1000 /\ merged[1].text = TextHello
        /\ merged[2].start = 1000 /\ merged[2].end = 2000 /\ merged[2].text = TextWorld
        /\ all_sentences = <<Sentence(TextHello, 0, 1000), Sentence(TextWorld, 1000, 2000)>>

C9_Witness == pc = "transcribed" /\ HelloWorldInput

(* C10: when a merged segment has been split into N > 1 sentences, their   *)
(* durations sum to the segment's end - start within 0.01 s and each ends  *)
(* no later than 0.01 s after the next one starts.                         *)
C10_ApportionedSpan ==
    (pc = "apportion" /\ sent_k > Len(sentences) /\ Len(sentences) > 1) =>
        LET n == Len(sentences)
            base == Len(all_sentences) - n
            durations == [j \in 1..n |->
                            all_sentences[base + j].end - all_sentences[base + j].start]
        IN /\ Abs(SumSeq(durations) - (merged[split_m].end - merged[split_m].start)) <= 10
           /\ \A j \in 1..(n - 1) :
                 all_sentences[base + j].end <= all_sentences[base + j + 1].start + 10

----------------------------------------------------------------------------
(* Properties of the aligner.                                              *)

(* the segments of segs, in order, whose span holds t or whose start is    *)
(* within 5.0 s of t                                                       *)
RECURSIVE Attached(_, _)
Attached(segs, t) ==
    IF segs = <<>> THEN <<>>
    ELSE (IF \/ Head(segs).start <= t /\ t <= Head(segs).end
             \/ Head(segs).start - t <= 5000 /\ t - Head(segs).start <= 5000
          THEN <<Head(segs).text>> ELSE <<>>) \o Attached(Tail(segs), t)

(* C5: a segment s is attached to the slide of a keyframe at t exactly     *)
(* when s.start <= t <= s.end or |s.start - t| <= 5.0; a keyframe at 12.0  *)
(* gets the segment [10.0, 11.0], and a keyframe at 50.0 whose only        *)
(* segment is [10.0, 11.0] gets empty speaker_text and title.              *)
C5_AttachedIffNear ==
    pc = "matched" =>
        \A j \in 1..Len(slides) :
            LET t == keyframes[j].timestamp_seconds
            IN /\ slides[j].content = Attached(asr_segments, t)
               /\ (t = 12000 /\ \E x \in 1..Len(asr_segments) :
                        asr_segments[x].start = 10000 /\ asr_segments[x].end = 11000)
                    => \E y \in 1..Len(slides[j].content) :
                            slides[j].content[y] = TextHelloWorld
               /\ (/\ t = 50000
                   /\ Len(asr_segments) = 1
                   /\ asr_segments[1].start = 10000
                   /\ asr_segments[1].end = 11000)
                    => slides[j].speaker_text = <<>> /\ slides[j].title = <<>>

(* the two scenarios: the only segment is [10.0, 11.0]; the keyframe at    *)
(* 12.0 has it attached, the keyframe at 50.0 has an empty slide           *)
C5_Witness ==
    /\ pc = "matched"
    /\ Len(asr_segments) = 1
    /\ asr_segments[1].start = 10000 /\ asr_segments[1].end = 11000
    /\ \E j \in 1..Len(slides) :
          /\ keyframes[j].timestamp_seconds = 12000
          /\ slides[j].content = <<TextHelloWorld>>
    /\ \E j \in 1..Len(slides) :
          /\ keyframes[j].timestamp_seconds = 50000
          /\ slides[j].speaker_text = <<>>
          /\ slides[j].title = <<>>

(* C6: the slides are 1:1 with the keyframes: as many, and the j-th slide  *)
(* refers to the j-th keyframe, also when nothing matched it.              *)
C6_OneSlidePerKeyframe ==
    /\ pc = "match" => Len(slides) = match_i - 1
    /\ pc = "matched" => Len(slides) = Len(keyframes)
    /\ \A j \in 1..Len(slides) :
          /\ slides[j].keyframe.filename = keyframes[j].filename
          /\ slides[j].keyframe.path = keyframes[j].path
          /\ slides[j].timestamp_seconds = keyframes[j].timestamp_seconds

(* three keyframes, the middle one with no matching segment *)
C6_Witness ==
    /\ pc = "matched"
    /\ Len(keyframes) = 3
    /\ Len(slides) = 3
    /\ slides[1].content # <<>>
    /\ slides[2].content = <<>>
    /\ slides[3].content # <<>>

----------------------------------------------------------------------------
(* Properties of the extractor: failures, the cap and the progress         *)
(* callback.                                                               *)

(* C12: when the video cannot be opened, extract_keyframes raises, and     *)
(* nothing was produced: no record collected or returned, no image written *)
(* and no invocation of the progress callback.                             *)
C12_OpenFailureNoOutput ==
    (~video.opens /\ pc # "extract") =>
        /\ pc = "raised"
        /\ returned = NotReturned
        /\ keyframes_info = <<>>
        /\ written = <<>>
        /\ calls = <<>>

C12_Witness == pc = "raised" /\ ~video.opens /\ progress_callback

(* the scan was left by "break": the loop condition still holds *)
ReadFailedAt(p) == LoopCondition /\ frame_position = p

(* the frame at the sampled position q is a keyframe: the first one, or    *)
(* one whose difference from the frame sampled before it exceeds the       *)
(* threshold                                                               *)
IsKeyframeAt(q) ==
    \/ q = 0
    \/ RealLt(threshold, Abs(video.frames[q + 1] - video.frames[q - frame_interval + 1]), 1)

(* C13: when the read at the sampled position p fails, the call returns    *)
(* normally, and the list it returns holds exactly the keyframes of the    *)
(* sampled positions before p, in order.                                   *)
C13_PartialOnReadFailure ==
    /\ pc = "raised" => ~video.opens
    /\ \A p \in 0..(MaxFrames + 2) :
          (pc \in {"finish", "returned"} /\ ReadFailedAt(p)) =>
              /\ \A k \in 1..Len(keyframes_info) :
                    /\ keyframes_info[k].frame_number < p
                    /\ keyframes_info[k].frame_number % frame_interval = 0
                    /\ IsKeyframeAt(keyframes_info[k].frame_number)
                    /\ k > 1 => keyframes_info[k - 1].frame_number
                                   < keyframes_info[k].frame_number
              /\ \A q \in 0..(p - 1) :
                    (q % frame_interval = 0 /\ IsKeyframeAt(q)) =>
                        \E k \in 1..Len(keyframes_info) :
                            keyframes_info[k].frame_number = q
              /\ pc = "returned" => returned = keyframes_info

(* the read fails at position 3, after two keyframes and one frame that    *)
(* was passed over                                                         *)
C13_Witness ==
    /\ pc = "returned"
    /\ ReadFailedAt(3)
    /\ frame_interval = 1
    /\ Len(returned) = 2

(* C16: the number of emitted keyframes never exceeds the cap, and no      *)
(* frame is read or emitted once the count has reached the cap or the      *)
(* position the frame count.                                               *)
C16_CapRespected ==
    /\ [](pc \in {"scan", "finish", "returned"} =>
            /\ screenshot_count <= max_screenshots
            /\ Len(keyframes_info) = screenshot_count
            /\ Len(written) = screenshot_count)
    /\ [][(\/ frame_position' # frame_position
           \/ keyframes_info' # keyframes_info
           \/ written' # written) =>
              (screenshot_count < max_screenshots /\ frame_position < frame_count)]_vars

(* the scan stopped at the cap with frames left *)
C16_Witness ==
    /\ pc = "returned"
    /\ max_screenshots >= 2
    /\ screenshot_count = max_screenshots
    /\ frame_position < frame_count
    /\ CanRead(video, frame_position)

(* C17: a call that returns with a callback supplied has invoked it        *)
(* exactly once after the scan, with 100, as its last invocation; every    *)
(* other invocation was made inside the scan.                              *)
C17_FinalCallback ==
    /\ pc \in {"extract", "scan", "finish", "raised"} =>
          \A i \in 1..Len(calls) : calls[i].at = "scan"
    /\ (pc = "returned" /\ progress_callback) =>
          /\ Len(calls) >= 1
          /\ calls[Len(calls)].at = "finish"
          /\ calls[Len(calls)].value = <<100, 1>>
          /\ \A i \in 1..(Len(calls) - 1) : calls[i].at = "scan"
    /\ ~progress_callback => calls = <<>>

(* the scan ended on a failed read or at the cap, less than 0.5 s after    *)
(* the last invocation made inside the scan                                *)
C17_Witness ==
    /\ pc = "returned"
    /\ progress_callback
    /\ LoopCondition \/ (screenshot_count = max_screenshots /\ frame_position < frame_count)
    /\ Len(calls) >= 2
    /\ calls[Len(calls)].time - last_progress_update <= ThrottleMs

(* C18: two consecutive invocations made inside the scan are at least      *)
(* 500 ms apart.                                                           *)
C18_CallsHalfSecondApart ==
    \A i \in 1..(Len(calls) - 1) :
        (calls[i].at = "scan" /\ calls[i + 1].at = "scan") =>
            calls[i + 1].time - calls[i].time >= 500

(* C20: for a video that opens, calculate_adaptive_threshold returns 0.1,  *)
(* and raises nothing, when the reported frame count is at most 1, when    *)
(* the file holds at most one frame, and when the second sample (at the    *)
(* sampling interval) cannot be read.                                      *)
C20_DefaultOnDegenerate ==
    /\ pc = "raised" => ~video.opens
    /\ (/\ pc = "threshold_returned"
        /\ \/ video.frame_count <= 1
           \/ Len(video.frames) <= 1
           \/ Len(video.frames) <= video.frame_count \div (sample_count + 1))
          => threshold = Real(51, 0, 2)

(* more than one frame reported and held, yet no pair of samples read *)
C20_Witness ==
    /\ pc = "threshold_returned"
    /\ video.frame_count > 1
    /\ Len(video.frames) > 1
    /\ Len(video.frames) <= video.frame_count \div (sample_count + 1)
    /\ threshold = Real(51, 0, 2)

----------------------------------------------------------------------------
(* Properties of the file names.                                           *)

(* C11: the name written for a keyframe is accepted by the decoder, which  *)
(* reads from it the keyframe's sequence number and its timestamp          *)
(* frame_position / fps truncated to milliseconds.                         *)
C11_FilenameRoundTrip ==
    pc = "decoded" =>
        /\ Len(decoded) = 1
        /\ decoded[1].frame_number = screenshot_count
        /\ decoded[1].timestamp_seconds = (frame_position * 1000) \div fps

----------------------------------------------------------------------------
(* Properties of the batch processing.                                     *)

FolderFailed(folder) == ~folder.pdf \/ folder.tool # "ok" \/ ~folder.write

HasRecord(results, name) == \E k \in 1..Len(results) : results[k].video_name = name

HasErrorRecord(results, name) ==
    \E k \in 1..Len(results) :
        results[k].video_name = name /\ results[k].status = "error"

(* C14: in process_all_videos a folder whose processing fails (no PDF, a   *)
(* nonzero exit or a timeout of the tool, any exception) gets a record     *)
(* with status "error" and the loop goes on: every folder passed is in the *)
(* results, the call ends only after the last folder, and the summary then *)
(* written counts the successes and failures.  Only the summary's own      *)
(* write can end the call without a summary.                               *)
C14_FailureIsolated ==
    /\ \A j \in 1..Len(video_folders) :
          j < batch_i =>
              /\ HasRecord(all_results, video_folders[j].name)
              /\ FolderFailed(video_folders[j]) =>
                     HasErrorRecord(all_results, video_folders[j].name)
    /\ pc \in {"batch_done", "batch_raised"} => batch_i = Len(video_folders) + 1
    /\ pc = "batch_raised" => ~summary_writable
    /\ pc = "batch_done" =>
          /\ Len(summary) = 1
          /\ summary[1].total_videos = Len(video_folders)
          /\ summary[1].failed_videos = CountStatus(all_results, "error")
          /\ summary[1].successful_videos = CountStatus(all_results, "success")
          /\ summary[1].failed_videos >=
                 Cardinality({j \in 1..Len(video_folders) :
                                  FolderFailed(video_folders[j])})

C14_Witness ==
    /\ pc = "batch_done"
    /\ Len(video_folders) = 2
    /\ ~video_folders[1].pdf
    /\ video_folders[2].tool = "ok" /\ video_folders[2].write
    /\ summary[1].failed_videos = 1
    /\ summary[1].successful_videos = 1

----------------------------------------------------------------------------
(* Properties of the document generation.                                  *)

(* The documented transcript is an object whose 'segments' are segments;   *)
(* a top-level list of segments is what load_asr_data also accepts.        *)
WellFormedTranscript(file) ==
    /\ file.kind \in {"object", "array"}
    /\ \A j \in 1..Len(file.items) : file.items[j].kind = "segment"

(* C15: a malformed transcript file (unparsable, or parsable but not of    *)
(* the documented shape) gives an empty segment list, and                  *)
(* generate_structured_json still returns a document with one slide per    *)
(* keyframe, each with an empty speaker_text.                              *)
C15_MalformedTranscriptDegrades ==
    (pc = "generated" /\ ~WellFormedTranscript(asr_file) /\ output_writable) =>
        /\ asr_segments = <<>>
        /\ Len(document) = 1
        /\ Len(document[1].slides) = Len(keyframes)
        /\ \A j \in 1..Len(document[1].slides) :
               document[1].slides[j].speaker_text = <<>>

----------------------------------------------------------------------------
(* Properties of concurrent extractions.                                   *)

----------------------------------------------------------------------------
(* Properties of the extractor: the frame a difference is taken from.      *)

(* the k-th sampled position *)
Sampled(k) == k * frame_interval

(* the difference between the frames read at the sampled positions k and   *)
(* k - 1                                                                   *)
AdjacentDifference(k) ==
    Abs(video.frames[Sampled(k) + 1] - video.frames[Sampled(k - 1) + 1])

RecordsAt(p) == {j \in 1..Len(keyframes_info) : keyframes_info[j].frame_number = p}

(* C21: at every sampled position after the first that the scan has        *)
(* passed, a keyframe was emitted if and only if the difference from the   *)
(* frame read at the sampled position just before it is strictly greater   *)
(* than the threshold, whether or not that frame was emitted; the emitted  *)
(* record carries that difference.                                         *)
C21_DifferenceFromAdjacentFrame ==
    pc \in {"scan", "finish", "returned"} =>
        \A k \in 1..(MaxFrames + 1) :
            Sampled(k) < frame_position =>
                /\ (RecordsAt(Sampled(k)) # {})
                       <=> RealLt(threshold, AdjacentDifference(k), 1)
                /\ \A j \in RecordsAt(Sampled(k)) :
                       keyframes_info[j].difference = AdjacentDifference(k)

(* a keyframe at the third sampled position although the second was       *)
(* passed over                                                             *)
C21_Witness ==
    /\ pc = "returned"
    /\ Sampled(2) < frame_position
    /\ RecordsAt(Sampled(1)) = {}
    /\ RecordsAt(Sampled(2)) # {}

----------------------------------------------------------------------------
(* Properties of merge_segments: the boundary rule.                        *)

EndsWithTerminalMark(t) == t # <<>> /\ t[Len(t)] \in TerminalMarks

StartsWithLatinCapital(t) == t # <<>> /\ t[1] \in LatinUpperCase

(* C22: in every iteration of merge_segments the accumulator is closed and *)
(* a new one opened from the next segment exactly when the accumulator's   *)
(* trimmed text ends with a terminal mark or the next segment's trimmed    *)
(* text begins with an upper-case Latin letter; otherwise the next segment *)
(* is merged: its text appended after one space and its end taken.         *)
C22_BoundaryRule ==
    [][(pc = "merge" /\ merge_i <= Len(segments) /\ merge_i' = merge_i + 1) =>
          LET next_segment == segments[merge_i]
              closes == \/ EndsWithTerminalMark(Strip(current.text))
                        \/ StartsWithLatinCapital(Strip(next_segment.text))
          IN IF closes
             THEN /\ merged' = Append(merged, current)
                  /\ current'.text = next_segment.text
                  /\ current'.start = next_segment.start
                  /\ current'.end = next_segment.end
             ELSE /\ merged' = merged
                  /\ current'.text = current.text \o <<" ">> \o Strip(next_segment.text)
                  /\ current'.start = current.start
                  /\ current'.end = next_segment.end]_vars

----------------------------------------------------------------------------
(* Properties of merge_segments: the raw segments.                         *)

(* C23: merge_segments and process_transcription leave the raw segments    *)
(* as they were: no step changes the text, the start, the end or the word  *)
(* list of any of them.                                                    *)
C23_RawSegmentsUnchanged == [][segments' = segments]_vars

----------------------------------------------------------------------------
(* Properties of the aligner: the order of the matched texts.              *)

(* the segments matched to a timestamp, in the order of the transcript *)
RECURSIVE MatchingSegments(_, _)
MatchingSegments(segs, timestamp_sec) ==
    IF segs = <<>> THEN <<>>
    ELSE (IF Matches(Head(segs), timestamp_sec) THEN <<Head(segs)>> ELSE <<>>)
         \o MatchingSegments(Tail(segs), timestamp_sec)

(* the gap between a segment's start and the keyframe *)
Proximity(segment, timestamp_sec) == Abs(segment.start - timestamp_sec)

(* the orders of 1..n in which the matched segments lie nearest first *)
NearestFirst(found, timestamp_sec) ==
    {f \in [1..Len(found) -> 1..Len(found)] :
        /\ \A a, b \in 1..Len(found) : a # b => f[a] # f[b]
        /\ \A a \in 1..(Len(found) - 1) :
              Proximity(found[f[a]], timestamp_sec)
                  <= Proximity(found[f[a + 1]], timestamp_sec)}

(* C24: a slide's speaker_text is the texts matched to its keyframe joined *)
(* by single spaces, the texts ordered by proximity to the keyframe's      *)
(* timestamp, the nearest first.                                           *)
C24_SpeakerTextByProximity ==
    pc = "matched" =>
        \A i \in 1..Len(slides) :
            LET ts == keyframes[i].timestamp_seconds
                found == MatchingSegments(asr_segments, ts)
            IN \E f \in NearestFirst(found, ts) :
                   slides[i].speaker_text =
                       JoinSpace([k \in 1..Len(found) |-> found[f[k]].text])

----------------------------------------------------------------------------
(* Properties of the extractor: termination of the scan.                   *)

(* C25: for every opened video and every capture interval, zero, negative  *)
(* and below one frame included, the frame interval is                     *)
(* max(1, floor(capture_interval * fps)) >= 1, every iteration of the scan *)
(* advances the frame position by it, and the scan loop ends.              *)
C25_ScanTerminates ==
    /\ [](pc = "scan" =>
             /\ frame_interval >= 1
             /\ frame_interval = Max(1, (capture_interval * fps) \div 2))
    /\ [][(pc = "scan" /\ pc' = "scan") =>
              frame_position' = frame_position + frame_interval]_vars
    /\ (pc = "scan") ~> (pc = "returned")

(* a scan of three frames that ended, the capture interval being zero *)
C25_Witness ==
    /\ pc = "returned"
    /\ capture_interval = 0
    /\ frame_position = 3
    /\ Len(video.frames) = 3

----------------------------------------------------------------------------
(* Properties of the /extract endpoint.                                    *)

(* C26: a POST to /extract that names an uploaded file whose video opens   *)
(* calls the extractor with parameters it accepts and is answered with     *)
(* success and one entry per extracted keyframe.                           *)
C26_ExtractAnswersWithKeyframes ==
    (pc = "responded" /\ request.has_filename /\ request.exists /\ video.opens) =>
        /\ Binds(PassedKeywords)
        /\ response.status = 200
        /\ response.keyframes =
               ExtractedFrames(video, capture_interval, max_screenshots)

----------------------------------------------------------------------------
(* Properties of the slides of a directory.                                *)

(* C27: whatever runs and deletions the directory has seen, the slides     *)
(* made from it are ordered: slide_number and timestamp_seconds both       *)
(* increase strictly along the list, so no two slides share a number.      *)
C27_SlidesOrdered ==
    pc = "slides" =>
        \A i \in 1..(Len(slides) - 1) :
            /\ slides[i].slide_number < slides[i + 1].slide_number
            /\ slides[i].timestamp_seconds < slides[i + 1].timestamp_seconds

----------------------------------------------------------------------------
(* Properties of the batch processing: the number of records.              *)

(* C28: process_all_videos records exactly one result for each folder: at  *)
(* completion processed_videos equals total_videos and successful_videos   *)
(* plus failed_videos equals total_videos, also when a folder's result     *)
(* file cannot be written.                                                 *)
C28_OneResultPerVideo ==
    pc = "batch_done" =>
        /\ Len(all_results) = Len(video_folders)
        /\ summary[1].processed_videos = summary[1].total_videos
        /\ summary[1].successful_videos + summary[1].failed_videos
               = summary[1].total_videos

----------------------------------------------------------------------------
(* Properties of the lazily created ASR processor.                         *)

(* C29: under every interleaving of concurrent /process_asr requests one   *)
(* ASRProcessor at most is constructed, and every request uses that same   *)
(* instance.                                                               *)
C29_SingleProcessor ==
    /\ instances <= 1
    /\ \A w1 \in DOMAIN processor : \A w2 \in DOMAIN processor :
           (processor[w1] # 0 /\ processor[w2] # 0) => processor[w1] = processor[w2]

----------------------------------------------------------------------------
(* C30: when process_transcription returns, every merged segment has at    *)
(* least one sentence, one lying in the segment's span (to the rounding of *)
(* the times), the segments of empty or blank text included.               *)
SentencesOf(m) ==
    {k \in 1..Len(all_sentences) :
         /\ all_sentences[k].start >= merged[m].start - 10
         /\ all_sentences[k].end <= merged[m].end + 10}

C30_SentenceForEverySegment ==
    pc = "transcribed" => \A m \in 1..Len(merged) : SentencesOf(m) # {}

=============================================================================
